---- MODULE Spec2Model ----
(***************************************************************************)
(* Verification model of the parrhesia-frontend group messaging core:      *)
(* the TreeKEM tree (src/src/treekem.ts) and the session dispatcher        *)
(* (ChatConnection).                                                       *)
(*                                                                         *)
(* Byte strings are modelled symbolically.  A KEM key pair is a positive   *)
(* integer k (publicKey = secretKey = k, 0 = null).  A 32-byte secret is a *)
(* pair <<seed, d>>: the random value seed after d node derivations        *)
(* (<<>> = null).  A base64 string is a tuple wrapping its bytes, and the  *)
(* empty string is <<>>.                                                   *)
(***************************************************************************)
EXTENDS Integers, Sequences, FiniteSets, TLC

\* ------------------------------------------------------------------ bounds
MaxLeaves == 4

MaxCommits == 2

MaxDepartures == 1

MaxPeers == 3

MaxAnnouncements == 2

MaxRunning == 2

MaxKeys == 2

MaxClock == 5

\* Participants of the room in which messages are sent, and tree_commit frames
\* the connection receives there.
MaxRoom == 2

MaxReceived == 1

\* Leaves of the tree that is grown leaf by leaf, and leaves removed from it.
MaxGrown == 17

MaxBlanked == 1

\* Counters of the messages a receiver is handed: 0..MaxCounter and
\* MAX_SKIPPED..MAX_SKIPPED + MaxBeyond; rekeys the receiver goes through.
MaxCounter == 2

MaxBeyond == 1

MaxEpoch == 2

\* Ciphertexts one sender produces; sendMessage calls suspended at once.
MaxProduced == 4

MaxSending == 2

\* Passwords a user types; connect calls made in one browser.
MaxPasswords == 2

MaxAttempts == 4

\* Tabs of one browser, rooms they visit, seconds the clock runs.
MaxTabs == 2

MaxTabRooms == 2

MaxNow == 6

\* Peers one manager registers, and the signing keys they come with.
MaxColorPeers == 3

MaxColorKeys == 4

\* Length and alphabet of the public keys safety numbers are computed for.
MaxKeyLen == 3

MaxKeyChars == 2

\* ------------------------------------------------------------ symbolic bytes
NoKey == 0
NoSecret == <<>>
NoIndex == 0 - 1

uint8ArrayToBase64(bytes) == <<bytes>>
base64ToUint8Array(b64) == b64[1]
EmptyString == <<>>

deriveNodeSecret(childSecret) == <<childSecret[1], childSecret[2] + 1>>

\* ------------------------------------------------------------ node index math
RECURSIVE nodeLevel(_)
nodeLevel(index) ==
  IF index % 2 = 1 THEN 1 + nodeLevel(index \div 2) ELSE 0

isLeaf(index) == index % 2 = 0

leftChild(index) == index - 2^(nodeLevel(index) - 1)

rightChild(index) == index + 2^(nodeLevel(index) - 1)

RECURSIVE log2(_)
log2(x) == IF x <= 1 THEN 0 ELSE 1 + log2(x \div 2)

treeWidth(numLeaves) == IF numLeaves = 0 THEN 0 ELSE 2 * (numLeaves - 1) + 1

RECURSIVE rootDescend(_, _)
rootDescend(idx, width) ==
  IF idx >= width THEN rootDescend(leftChild(idx), width) ELSE idx

root(numLeaves) ==
  rootDescend(2^log2(treeWidth(numLeaves)) - 1, treeWidth(numLeaves))

parent(index, numLeaves) ==
  IF index = root(numLeaves) THEN NoIndex
  ELSE LET level == nodeLevel(index)
           isLeft == ((index \div 2^(level + 1)) % 2) = 0
       IN IF isLeft THEN index + 2^level ELSE index - 2^level

siblingLeft(index, numLeaves) == leftChild(parent(index, numLeaves))

sibling(index, numLeaves) ==
  LET p == parent(index, numLeaves)
      l == leftChild(p)
  IN IF index = l THEN rightChild(p) ELSE l

RECURSIVE directPathFromBelowRoot(_, _, _)
directPathFromBelowRoot(current, r, numLeaves) ==
  IF current = r \/ parent(current, numLeaves) = r THEN <<>>
  ELSE <<parent(current, numLeaves)>>
         \o directPathFromBelowRoot(parent(current, numLeaves), r, numLeaves)

RECURSIVE directPathFrom(_, _, _)
directPathFrom(current, r, numLeaves) ==
  IF current = r THEN <<>>
  ELSE LET p == parent(current, numLeaves)
       IN <<p>> \o directPathFrom(p, r, numLeaves)

directPath(leafIndex, numLeaves) ==
  directPathFrom(2 * leafIndex, root(numLeaves), numLeaves)

RECURSIVE copathFrom(_, _, _)
copathFrom(current, r, numLeaves) ==
  IF current = r THEN <<>>
  ELSE <<sibling(current, numLeaves)>>
         \o copathFrom(parent(current, numLeaves), r, numLeaves)

copath(leafIndex, numLeaves) ==
  copathFrom(2 * leafIndex, root(numLeaves), numLeaves)

indexOf(seq, x) ==
  IF \E i \in 1..Len(seq) : seq[i] = x
  THEN (CHOOSE i \in 1..Len(seq) : seq[i] = x /\ \A k \in 1..(i - 1) : seq[k] # x) - 1
  ELSE 0 - 1

\* ------------------------------------------------------------ the node array
\* nodes is a TypeScript array (TreeNode | null)[]; slot i of the array is
\* element i + 1 of the sequence, and a null slot has present = FALSE.
NullSlot ==
  [present |-> FALSE, publicKey |-> NoKey, secretKey |-> NoKey, secret |-> NoSecret]

TreeNode(pk, sk, s) ==
  [present |-> TRUE, publicKey |-> pk, secretKey |-> sk, secret |-> s]

BlankTreeNode == TreeNode(NoKey, NoKey, NoSecret)

nodeAt(nodes, index) ==
  IF index >= 0 /\ index < Len(nodes) THEN nodes[index + 1] ELSE NullSlot

ensureNode(nodes, index) ==
  LET padded == IF Len(nodes) <= index
                THEN nodes \o [i \in 1..(index + 1 - Len(nodes)) |-> NullSlot]
                ELSE nodes
  IN IF padded[index + 1].present THEN padded
     ELSE [padded EXCEPT ![index + 1] = BlankTreeNode]

blankNode(nodes, index) ==
  IF index < Len(nodes) /\ nodes[index + 1].present
  THEN [nodes EXCEPT ![index + 1] = BlankTreeNode]
  ELSE nodes

RECURSIVE blankEach(_, _)
blankEach(nodes, idxs) ==
  IF idxs = <<>> THEN nodes
  ELSE blankEach(blankNode(nodes, Head(idxs)), Tail(idxs))

RECURSIVE ensureEach(_, _)
ensureEach(nodes, idxs) ==
  IF idxs = <<>> THEN nodes
  ELSE ensureEach(ensureNode(nodes, Head(idxs)), Tail(idxs))

\* ------------------------------------------------------------ KEM + AEAD box
\* encryptToNode: an ML-KEM encapsulation to recipientPub followed by an
\* AES-GCM box of base64(secret) under the key derived from the shared secret.
encryptToNode(secret, recipientPub) ==
  [mlKemCiphertext |-> uint8ArrayToBase64(recipientPub),
   encryptedSecret |-> <<recipientPub, uint8ArrayToBase64(secret)>>]

\* decryptFromNode: decapsulation under a secret key other than the one the
\* ciphertext was made for yields another shared secret (implicit rejection),
\* and the AES-GCM opening then throws; NoSecret stands for that exception.
decryptFromNode(mlKemCt, encryptedSecret, mySecretKey) ==
  LET ss == IF base64ToUint8Array(mlKemCt) = mySecretKey THEN mySecretKey ELSE NoKey
  IN IF ss # NoKey /\ encryptedSecret[1] = ss
     THEN base64ToUint8Array(encryptedSecret[2])
     ELSE NoSecret

\* ------------------------------------------------------------ TreeKemState
NewTreeKemState == [nodes |-> <<>>, numLeaves |-> 0, myLeafPos |-> 0]

createForCreator(mlKemPub, mlKemSk, randomSecret) ==
  [nodes |-> [ensureNode(<<>>, 0) EXCEPT ![1] = TreeNode(mlKemPub, mlKemSk, randomSecret)],
   numLeaves |-> 1,
   myLeafPos |-> 0]

addLeafNoBlank(st, mlKemPublicKey) ==
  LET leafPos == st.numLeaves
      n == st.numLeaves + 1
      nodeIdx == 2 * leafPos
      n1 == [ensureNode(st.nodes, nodeIdx) EXCEPT
               ![nodeIdx + 1] = TreeNode(mlKemPublicKey, NoKey, NoSecret)]
      n3 == ensureEach(n1, directPath(st.myLeafPos, n))
  IN [st EXCEPT !.nodes = n3, !.numLeaves = n]

addLeaf(st, mlKemPublicKey) ==
  LET leafPos == st.numLeaves
      n == st.numLeaves + 1
      nodeIdx == 2 * leafPos
      n1 == [ensureNode(st.nodes, nodeIdx) EXCEPT
               ![nodeIdx + 1] = TreeNode(mlKemPublicKey, NoKey, NoSecret)]
      n2 == blankEach(n1, directPath(leafPos, n))
      n3 == ensureEach(n2, directPath(st.myLeafPos, n))
  IN [st EXCEPT !.nodes = n3, !.numLeaves = n]

removeLeafLeafOnly(st, leafPos) ==
  [st EXCEPT !.nodes = blankNode(st.nodes, 2 * leafPos)]

removeLeaf(st, leafPos) ==
  LET n1 == blankNode(st.nodes, 2 * leafPos)
  IN IF st.numLeaves <= 1 THEN [st EXCEPT !.nodes = n1]
     ELSE [st EXCEPT !.nodes = blankEach(n1, directPath(leafPos, st.numLeaves))]

RECURSIVE resolveNode(_, _)
resolveNode(nodes, nodeIdx) ==
  IF nodeIdx >= Len(nodes) THEN NullSlot
  ELSE LET node == nodes[nodeIdx + 1]
       IN IF ~node.present THEN NullSlot
          ELSE IF node.publicKey # NoKey THEN node
          ELSE IF ~isLeaf(nodeIdx) /\ nodeLevel(nodeIdx) > 0
               THEN LET leftNode == resolveNode(nodes, leftChild(nodeIdx))
                    IN IF leftNode.present THEN leftNode
                       ELSE resolveNode(nodes, rightChild(nodeIdx))
               ELSE NullSlot

RECURSIVE findDecryptionNode(_, _)
findDecryptionNode(nodes, nodeIdx) ==
  IF nodeIdx >= Len(nodes) THEN NullSlot
  ELSE LET node == nodes[nodeIdx + 1]
       IN IF node.present /\ node.secretKey # NoKey THEN node
          ELSE IF ~isLeaf(nodeIdx) /\ nodeLevel(nodeIdx) > 0
               THEN LET leftResult == findDecryptionNode(nodes, leftChild(nodeIdx))
                    IN IF leftResult.present THEN leftResult
                       ELSE findDecryptionNode(nodes, rightChild(nodeIdx))
               ELSE NullSlot

EmptyEntry(pathNodeIdx, kpPublicKey) ==
  [nodeIndex |-> pathNodeIdx,
   newPublicKey |-> uint8ArrayToBase64(kpPublicKey),
   mlKemCiphertext |-> EmptyString,
   encryptedSecret |-> EmptyString]

\* The loop of generateCommit over the direct path; the key pair generated for
\* path node i is fresh + i.
RECURSIVE commitPathFlat(_, _, _, _, _, _, _)
commitPathFlat(nodes, dp, cp, i, currentSecret, fresh, pathEntries) ==
  IF i > Len(dp) THEN [nodes |-> nodes, path |-> pathEntries]
  ELSE LET pathNodeIdx == dp[i]
           copathNodeIdx == cp[i]
           secret == deriveNodeSecret(currentSecret)
           kp == fresh + i
           n1 == [ensureNode(nodes, pathNodeIdx) EXCEPT
                    ![pathNodeIdx + 1] = TreeNode(kp, kp, currentSecret)]
           copathNode == resolveNode(n1, copathNodeIdx)
           box == encryptToNode(secret, copathNode.publicKey)
           entry == IF copathNode.present /\ copathNode.publicKey # NoKey
                    THEN [nodeIndex |-> pathNodeIdx,
                          newPublicKey |-> uint8ArrayToBase64(kp),
                          mlKemCiphertext |-> box.mlKemCiphertext,
                          encryptedSecret |-> box.encryptedSecret]
                    ELSE EmptyEntry(pathNodeIdx, kp)
       IN commitPathFlat(n1, dp, cp, i + 1, secret, fresh, Append(pathEntries, entry))

RECURSIVE commitPath(_, _, _, _, _, _, _)
commitPath(nodes, dp, cp, i, currentSecret, fresh, pathEntries) ==
  IF i > Len(dp) THEN [nodes |-> nodes, path |-> pathEntries]
  ELSE LET pathNodeIdx == dp[i]
           copathNodeIdx == cp[i]
           secret == deriveNodeSecret(currentSecret)
           kp == fresh + i
           n1 == [ensureNode(nodes, pathNodeIdx) EXCEPT
                    ![pathNodeIdx + 1] = TreeNode(kp, kp, secret)]
           copathNode == resolveNode(n1, copathNodeIdx)
           box == encryptToNode(secret, copathNode.publicKey)
           entry == IF copathNode.present /\ copathNode.publicKey # NoKey
                    THEN [nodeIndex |-> pathNodeIdx,
                          newPublicKey |-> uint8ArrayToBase64(kp),
                          mlKemCiphertext |-> box.mlKemCiphertext,
                          encryptedSecret |-> box.encryptedSecret]
                    ELSE EmptyEntry(pathNodeIdx, kp)
       IN commitPath(n1, dp, cp, i + 1, secret, fresh, Append(pathEntries, entry))

\* What generateCommit returns once the path loop is done.
commitOf(st, fresh, done) ==
  [state |-> [st EXCEPT !.nodes = done.nodes],
   commit |-> [committerLeafPos |-> st.myLeafPos,
               leafPublicKey |-> uint8ArrayToBase64(fresh),
               path |-> done.path,
               epoch |-> 0]]

\* generateCommit: fresh is the first unused random value; the leaf secret is
\* <<fresh, 0>> and the new leaf key pair is fresh.
generateCommit(st, fresh) ==
  commitOf(st, fresh,
           commitPath([ensureNode(st.nodes, 2 * st.myLeafPos) EXCEPT
                         ![2 * st.myLeafPos + 1] = TreeNode(fresh, fresh, <<fresh, 0>>)],
                      directPath(st.myLeafPos, st.numLeaves),
                      copath(st.myLeafPos, st.numLeaves),
                      1, <<fresh, 0>>, fresh, <<>>))

NoEntry ==
  [nodeIndex |-> NoIndex,
   newPublicKey |-> EmptyString,
   mlKemCiphertext |-> EmptyString,
   encryptedSecret |-> EmptyString]

\* commit.path.find(e => e.nodeIndex === idx); NoEntry stands for undefined.
findEntry(path, idx) ==
  IF \E k \in 1..Len(path) : path[k].nodeIndex = idx
  THEN path[CHOOSE k \in 1..Len(path) :
              path[k].nodeIndex = idx /\ \A h \in 1..(k - 1) : path[h].nodeIndex # idx]
  ELSE NoEntry

RECURSIVE installPath(_, _)
installPath(nodes, path) ==
  IF path = <<>> THEN nodes
  ELSE LET entry == Head(path)
           n1 == ensureNode(nodes, entry.nodeIndex)
       IN installPath(
            [n1 EXCEPT ![entry.nodeIndex + 1] =
               TreeNode(base64ToUint8Array(entry.newPublicKey), NoKey, NoSecret)],
            Tail(path))

\* The test both search loops of processCommit apply at position i (1-based).
canDecryptAt(nodes, path, myDp, myCp, i) ==
  LET matchingEntry == findEntry(path, myDp[i])
      myNode == findDecryptionNode(nodes, myCp[i])
  IN /\ matchingEntry.nodeIndex # NoIndex
     /\ matchingEntry.mlKemCiphertext # EmptyString
     /\ myNode.present
     /\ myNode.secretKey # NoKey

Least(S) == CHOOSE x \in S : \A y \in S : x <= y

RECURSIVE deriveUp(_, _, _, _)
deriveUp(nodes, dp, i, currentSecret) ==
  IF i > Len(dp) THEN nodes
  ELSE LET secret == deriveNodeSecret(currentSecret)
           n1 == ensureNode(nodes, dp[i])
       IN deriveUp([n1 EXCEPT ![dp[i] + 1].secret = secret], dp, i + 1, secret)

\* processCommit returns the state it leaves behind, whether it returned
\* (ok) or threw, and the root secret it returned.  This is what it leaves
\* when it throws.
processCommitThrown(st, nodes) ==
  [state |-> [st EXCEPT !.nodes = nodes], ok |-> FALSE, rootSecret |-> NoSecret]

\* The end of processCommit: the secret of the root node r, if it holds one.
processCommitRoot(st, nodes, r) ==
  IF nodes[r + 1].secret = NoSecret
  THEN processCommitThrown(st, nodes)
  ELSE [state |-> [st EXCEPT !.nodes = nodes], ok |-> TRUE,
        rootSecret |-> nodes[r + 1].secret]

\* processCommit from the decrypted path secret on: store it at the start
\* node and derive the secrets above it.
processCommitDerive(st, nodes, myDp, startIdx, decryptedSecret) ==
  IF decryptedSecret = NoSecret THEN processCommitThrown(st, nodes)
  ELSE processCommitRoot(
         st,
         ensureNode(deriveUp([ensureNode(nodes, myDp[startIdx]) EXCEPT
                                ![myDp[startIdx] + 1].secret = decryptedSecret],
                             myDp, startIdx + 1, decryptedSecret),
                    root(st.numLeaves)),
         root(st.numLeaves))

decryptEntry(matchingEntry, myNode) ==
  decryptFromNode(matchingEntry.mlKemCiphertext, matchingEntry.encryptedSecret,
                  myNode.secretKey)

\* processCommit once the search is over; startIdx 0 stands for -1.
processCommitFrom(st, path, nodes, myDp, myCp, startIdx) ==
  IF startIdx = 0 THEN processCommitThrown(st, nodes)
  ELSE processCommitDerive(st, nodes, myDp, startIdx,
                           decryptEntry(findEntry(path, myDp[startIdx]),
                                        findDecryptionNode(nodes, myCp[startIdx])))

\* The start index the two search loops leave (1-based), given the positions
\* at which the first and the second loop would break.
startIdxOf(firstHits, secondHits) ==
  IF firstHits # {} THEN Least(firstHits)
  ELSE IF secondHits # {} THEN Least(secondHits)
  ELSE 0

processCommitSearch(st, path, nodes, myDp, myCp, committerDp) ==
  processCommitFrom(
    st, path, nodes, myDp, myCp,
    startIdxOf({i \in 1..Len(myCp) :
                  /\ indexOf(committerDp, myCp[i]) = 0 - 1
                  /\ canDecryptAt(nodes, path, myDp, myCp, i)},
               {i \in 1..Len(myDp) : canDecryptAt(nodes, path, myDp, myCp, i)}))

\* The writes processCommit starts with: the committer's leaf and path nodes
\* get the commit's public keys and lose secret key and secret.
installCommitter(nodes, commit) ==
  installPath([ensureNode(nodes, 2 * commit.committerLeafPos) EXCEPT
                 ![2 * commit.committerLeafPos + 1] =
                   TreeNode(base64ToUint8Array(commit.leafPublicKey), NoKey, NoSecret)],
              commit.path)

processCommit(st, commit) ==
  processCommitSearch(st, commit.path, installCommitter(st.nodes, commit),
                      directPath(st.myLeafPos, st.numLeaves),
                      copath(st.myLeafPos, st.numLeaves),
                      directPath(commit.committerLeafPos, st.numLeaves))

\* treePublicKeys[index] = value on a TypeScript array: writing past the end
\* leaves holes, which read as undefined (EmptyString here, like null).
arraySet(arr, index, value) ==
  LET padded == IF Len(arr) <= index
                THEN arr \o [i \in 1..(index + 1 - Len(arr)) |-> EmptyString]
                ELSE arr
  IN [padded EXCEPT ![index + 1] = value]

\* The path entry of a welcome: the secret of a node, encapsulated to the joiner.
welcomeEntry(nodeIdx, node, box) ==
  [nodeIndex |-> nodeIdx,
   newPublicKey |-> IF node.publicKey # NoKey
                    THEN uint8ArrayToBase64(node.publicKey)
                    ELSE EmptyString,
   mlKemCiphertext |-> box.mlKemCiphertext,
   encryptedSecret |-> box.encryptedSecret]

\* The loop of generateWelcome: the first node of the joiner's direct path
\* that holds a secret, and nothing after it.
welcomeSecretsAtTop(nodes, dp, known, peerMlKemPub) ==
  IF known = {} THEN <<>>
  ELSE <<welcomeEntry(dp[Len(dp)],
                      nodeAt(nodes, dp[Len(dp)]),
                      encryptToNode(nodeAt(nodes, dp[Len(dp)]).secret, peerMlKemPub))>>

welcomeSecretsAt(nodes, dp, known, peerMlKemPub) ==
  IF known = {} THEN <<>>
  ELSE <<welcomeEntry(dp[Least(known)],
                      nodeAt(nodes, dp[Least(known)]),
                      encryptToNode(nodeAt(nodes, dp[Least(known)]).secret, peerMlKemPub))>>

welcomeSecrets(nodes, dp, peerMlKemPub) ==
  welcomeSecretsAt(nodes, dp,
                   {i \in 1..Len(dp) :
                      nodeAt(nodes, dp[i]).present /\ nodeAt(nodes, dp[i]).secret # NoSecret},
                   peerMlKemPub)

generateWelcome(st, joinerLeafPos, peerMlKemPub, epoch) ==
  [treePublicKeys |->
     arraySet([i \in 1..Len(st.nodes) |->
                 IF st.nodes[i].present /\ st.nodes[i].publicKey # NoKey
                 THEN uint8ArrayToBase64(st.nodes[i].publicKey)
                 ELSE EmptyString],
              2 * joinerLeafPos, uint8ArrayToBase64(peerMlKemPub)),
   numLeaves |-> st.numLeaves,
   myLeafPos |-> joinerLeafPos,
   pathSecrets |-> welcomeSecrets(st.nodes, directPath(joinerLeafPos, st.numLeaves),
                                  peerMlKemPub),
   epoch |-> epoch]

RECURSIVE installPublicKeys(_, _, _)
installPublicKeys(nodes, treePublicKeys, i) ==
  IF i >= Len(treePublicKeys) THEN nodes
  ELSE LET pk == treePublicKeys[i + 1]
       IN IF pk # EmptyString
          THEN installPublicKeys(
                 [ensureNode(nodes, i) EXCEPT ![i + 1].publicKey = base64ToUint8Array(pk)],
                 treePublicKeys, i + 1)
          ELSE installPublicKeys(nodes, treePublicKeys, i + 1)

\* The tail of fromWelcome, from the first path secret on: when the entry's
\* node is on the joiner's direct path dp (at 0-based position entryDpIdx),
\* it gets the decrypted secret and the secrets above it are derived.
fromWelcomeDeriveNone(state, entryNodeIndex, dp, entryDpIdx, decryptedSecret) ==
  IF entryDpIdx >= 0
  THEN [state EXCEPT !.nodes =
          ensureEach([ensureNode(state.nodes, entryNodeIndex) EXCEPT
                        ![entryNodeIndex + 1].secret = decryptedSecret],
                     SubSeq(dp, entryDpIdx + 2, Len(dp)))]
  ELSE state

fromWelcomeDerive(state, entryNodeIndex, dp, entryDpIdx, decryptedSecret) ==
  IF entryDpIdx >= 0
  THEN [state EXCEPT !.nodes =
          deriveUp([ensureNode(state.nodes, entryNodeIndex) EXCEPT
                      ![entryNodeIndex + 1].secret = decryptedSecret],
                   dp, entryDpIdx + 2, decryptedSecret)]
  ELSE state

fromWelcomeSecrets(state, welcome, decryptedSecret) ==
  fromWelcomeDerive(state, welcome.pathSecrets[1].nodeIndex,
                    directPath(state.myLeafPos, state.numLeaves),
                    indexOf(directPath(state.myLeafPos, state.numLeaves),
                            welcome.pathSecrets[1].nodeIndex),
                    decryptedSecret)

\* fromWelcome returns the new state and whether it returned (ok) or threw.
\* This is fromWelcome once the path entry has been opened.
fromWelcomeOpened(state, welcome, decryptedSecret) ==
  IF decryptedSecret = NoSecret
  THEN [state |-> NewTreeKemState, ok |-> FALSE]
  ELSE [state |-> fromWelcomeSecrets(state, welcome, decryptedSecret), ok |-> TRUE]

\* fromWelcome once public keys and own leaf are installed.
fromWelcomeInstalled(state, welcome, mySecretKey) ==
  IF Len(welcome.pathSecrets) > 0
  THEN fromWelcomeOpened(state, welcome,
                         decryptFromNode(welcome.pathSecrets[1].mlKemCiphertext,
                                         welcome.pathSecrets[1].encryptedSecret,
                                         mySecretKey))
  ELSE [state |-> state, ok |-> TRUE]

fromWelcome(welcome, myPublicKey, mySecretKey) ==
  fromWelcomeInstalled(
    [nodes |-> [ensureNode(installPublicKeys(<<>>, welcome.treePublicKeys, 0),
                           2 * welcome.myLeafPos) EXCEPT
                  ![2 * welcome.myLeafPos + 1].publicKey = myPublicKey,
                  ![2 * welcome.myLeafPos + 1].secretKey = mySecretKey],
     numLeaves |-> welcome.numLeaves,
     myLeafPos |-> welcome.myLeafPos],
    welcome, mySecretKey)

\* getRootSecret; NoSecret stands for the thrown 'No root secret available'.
getRootSecret(st) ==
  LET rootNode == nodeAt(st.nodes, root(st.numLeaves))
      myNode == nodeAt(st.nodes, 2 * st.myLeafPos)
  IN IF ~rootNode.present \/ rootNode.secret = NoSecret
     THEN IF myNode.present /\ myNode.secret # NoSecret THEN myNode.secret ELSE NoSecret
     ELSE rootNode.secret

\* ==================================================================
\* The group at the level of the TreeKEM operations.
\*
\* Member m is the m-th participant to join; joins are sequential, so every
\* tree gives it leaf position m.  Each participant handles the frames of its
\* inbox in order; the relay delivers a frame to the inboxes as it is sent.
\* GroupKeyManager, which owns the epoch and calls the tree, is modelled from
\* spec.md section 4.4 and the README.
\* ==================================================================
VARIABLES
  tree,            \* tree[m]: the TreeKemState of member m
  status,          \* "absent" | "pending" (no tree yet) | "member" | "removed"
  kemKp,           \* the ephemeral ML-KEM key pair each member announced
  epoch,           \* GroupKeyManager.epoch of each member
  inbox,           \* frames relayed to each member, not yet handled
  nextId,          \* the next unused random value
  numCommits,      \* commits generated so far
  numRekeys,       \* commits generated on an interval or after a departure
  welcomed,        \* members for whose join a commit + welcome was emitted
  removedLeaves,   \* removedLeaves[m]: the peers m has run removeLeaf for
  removedPeers,    \* removedPeers[m]: the peers m has run removePeer for
  held,            \* held[m]: every KEM secret key m ever generated
  rootsKnown,      \* rootsKnown[m]: every root secret m ever computed
  commitLog,       \* one record per generated commit
  outcome,         \* outcome[m]: what m's last processCommit did
  welcomeOutcome   \* welcomeOutcome[m]: what m's fromWelcome did

treeVars == <<tree, status, kemKp, epoch, inbox, nextId, numCommits, numRekeys, welcomed,
              removedLeaves, removedPeers, held, rootsKnown, commitLog, outcome,
              welcomeOutcome>>

\* The session dispatcher (ChatConnection) of each participant.  Participants
\* are named by their connection identifiers, which the election compares.
VARIABLES
  conn,            \* "absent" | "connected" | "gone"
  queue,           \* queue[p]: frames on p's socket whose message event has not fired
  running,         \* running[p]: the handleMessage executions suspended at an await
  registry,        \* registry[p]: the peers in p's GroupKeyManager
  leaves,          \* leaves[p]: numLeaves of p's tree, 0 when p has no tree
  tofu,            \* tofu[p]: p's TOFU store, signing key -> record
  handled,         \* handled[p]: a record per announcement p finished handling
  initiators,      \* initiators[j]: who decided to initiate for the join of j
  decided,         \* decided[j]: who finished deciding for the join of j
  audience,        \* audience[j]: who was sent the announcement of j
  delivered,       \* announcements delivered by AnnounceTo
  lastSent         \* lastSent[p]: the last tree frame p sent, and the join it was for

sessionVars == <<conn, queue, running, registry, leaves, tofu, handled, initiators,
                 decided, audience, delivered, lastSent>>

\* The TOFU store of one browser (localStorage 'parrhesia-tofu'), with a
\* clock.  Time is counted in units of 15 days.
VARIABLES
  tofuStore,       \* store.peers: signing key -> record
  tofuOrder,       \* the keys of store.peers in insertion order
  clock,           \* Date.now()
  lastRead,        \* what the last checkPeerKey / getStoredKey / getStoredPeerKey reported
  firstSeen        \* firstSeen of the record of each signing key, NoTime without one

storeVars == <<tofuStore, tofuOrder, clock, lastRead, firstSeen>>

\* One ChatConnection as the user sends messages through it.
VARIABLES
  chatId,              \* this.peerId; NoPeer until the relay's welcome
  chatPeers,           \* the peers in its GroupKeyManager
  messagesSinceRekey,  \* this.messagesSinceRekey
  encrypting,          \* sendMessage calls suspended at await encryptMessage
  committing,          \* sendMessage calls suspended at await initiateRekey
  receiving,           \* tree_commit handlers suspended at await receiveCommit
  received,            \* tree_commit frames received so far
  streak,              \* messages sent since a tree_commit was last sent or received
  lastReturn,          \* the counter when sendMessage last returned
  lastReceive          \* what the last tree_commit handler did

chatVars == <<chatId, chatPeers, messagesSinceRekey, encrypting, committing, receiving,
              received, streak, lastReturn, lastReceive>>

\* One TreeKemState as participants are added to it and removed from it.
VARIABLES
  grown,               \* the TreeKemState
  lastAdd              \* what the last addLeaf did

growVars == <<grown, lastAdd>>

\* The chains one receiver keeps for one sender.
VARIABLES
  rxEpoch,             \* the receiver's current epoch
  rxChain,             \* the sender's chain of the current epoch
  rxPrev,              \* the sender's chain of the previous epoch, NoChain when dropped
  rxGrace,             \* the grace timer is running
  rxGot,               \* the <<epoch, counter>> of the messages decrypted on the chains kept
  lastMessage          \* what the last message handler did

ratchetVars == <<rxEpoch, rxChain, rxPrev, rxGrace, rxGot, lastMessage>>

\* The chain a participant encrypts its own messages on.
VARIABLES
  txSeeded,            \* hasChain(): the chains have been seeded
  txEpoch,             \* the sender's current epoch
  txCounter,           \* the counter of the sender's own chain
  txPending,           \* the frames of the sendMessage calls suspended at await encryptMessage
  txLog                \* <<epoch, counter>> of every ciphertext produced, in order

sendVars == <<txSeeded, txEpoch, txCounter, txPending, txLog>>

\* One ChatConnection from connect to disconnect, with the key material its
\* GroupKeyManager holds.
VARIABLES
  ws,                  \* this.ws: "null" | "open" | "closed" (the socket closed, still referenced)
  torn,                \* disconnect was called or the socket closed
  km,                  \* what the GroupKeyManager holds
  decrypting,          \* 'message' handlers suspended at await decryptMessage
  afterClose           \* what happened since disconnect / close

closeVars == <<ws, torn, km, decrypting, afterClose>>

\* One browser's stored signing key pair and the connections opened with it.
VARIABLES
  keyStore,            \* localStorage: 'parrhesia-keypair' and 'parrhesia-keypair-wrapped'
  socket,              \* this.ws of the connection: "null" | "open"
  announced,           \* key_announce was sent on it
  attempts,            \* connect calls made
  lastConnect          \* what the last connect did

loginVars == <<keyStore, socket, announced, attempts, lastConnect>>

\* The tabs of one browser and the store of active rooms they share.
VARIABLES
  activeRooms,         \* localStorage 'parrhesia-active-rooms': room -> <<tabId, timestamp>>
  activeRoom,          \* activeRoom of each tab
  heartbeat,           \* heartbeatInterval of each tab is set
  beatAt,              \* when the interval of each tab was started or fired last
  foundFree,           \* the room isRoomOccupied last returned false for, per tab
  tabNow,                 \* Date.tabNow(), in seconds
  lastTab              \* what the last releaseRoom or heartbeat did

tabVars == <<activeRooms, activeRoom, heartbeat, beatAt, foundFree, tabNow, lastTab>>

\* The colors one GroupKeyManager assigns to itself and to its peers.
VARIABLES
  myPublicKey,         \* this.myPublicKey
  peerPublicKeys,      \* this.peerPublicKeys, <<peerId, publicKey>> in insertion order
  colorPreferences,    \* the public keys this.colorPreferences has an entry for
  peerColors,          \* this.peerColors: peerId -> color, NoColor without an entry
  myColor,             \* this.myColor
  lastColors           \* what the last addPeer / removePeer did

colorVars == <<myPublicKey, peerPublicKeys, colorPreferences, peerColors, myColor, lastColors>>

\* The safety number last computed for a pair of signing keys.
VARIABLES
  lastSafety           \* the arguments and the result of the last generateSafetyNumber

safetyVars == <<lastSafety>>

vars == <<treeVars, sessionVars, storeVars, chatVars, growVars, ratchetVars, sendVars, closeVars, loginVars, tabVars, colorVars, safetyVars>>

outsideTree == <<sessionVars, storeVars, chatVars, growVars, ratchetVars, sendVars, closeVars, loginVars, tabVars, colorVars, safetyVars>>

outsideSession == <<treeVars, storeVars, chatVars, growVars, ratchetVars, sendVars, closeVars, loginVars, tabVars, colorVars, safetyVars>>

outsideStore == <<treeVars, sessionVars, chatVars, growVars, ratchetVars, sendVars, closeVars, loginVars, tabVars, colorVars, safetyVars>>

outsideChat == <<treeVars, sessionVars, storeVars, growVars, ratchetVars, sendVars, closeVars, loginVars, tabVars, colorVars, safetyVars>>

outsideGrow == <<treeVars, sessionVars, storeVars, chatVars, ratchetVars, sendVars, closeVars, loginVars, tabVars, colorVars, safetyVars>>

outsideRatchet == <<treeVars, sessionVars, storeVars, chatVars, growVars, sendVars, closeVars, loginVars, tabVars, colorVars, safetyVars>>

outsideSend == <<treeVars, sessionVars, storeVars, chatVars, growVars, ratchetVars, closeVars, loginVars, tabVars, colorVars, safetyVars>>

outsideClose == <<treeVars, sessionVars, storeVars, chatVars, growVars, ratchetVars, sendVars, loginVars, tabVars, colorVars, safetyVars>>

outsideLogin == <<treeVars, sessionVars, storeVars, chatVars, growVars, ratchetVars, sendVars, closeVars, tabVars, colorVars, safetyVars>>

outsideTabs == <<treeVars, sessionVars, storeVars, chatVars, growVars, ratchetVars, sendVars, closeVars, loginVars, colorVars, safetyVars>>

outsideColors == <<treeVars, sessionVars, storeVars, chatVars, growVars, ratchetVars, sendVars, closeVars, loginVars, tabVars, safetyVars>>

outsideSafety == <<treeVars, sessionVars, storeVars, chatVars, growVars, ratchetVars, sendVars, closeVars, loginVars, tabVars, colorVars>>

Members == 0..(MaxLeaves - 1)

NodeIndices == 0..(2 * MaxLeaves)

hasTreeState(m) == tree[m].numLeaves > 0

\* hasPeers: the registry of m holds a peer.  Once m has a tree, the peers it
\* registered are the other leaves of the tree.
hasPeers(m) ==
  \E x \in Members : x # m /\ x < tree[m].numLeaves /\ x \notin removedPeers[m]

connected(m) == status[m] \in {"pending", "member"}

\* The public keys of a tree, by node index.
PubView(st) ==
  [numLeaves |-> st.numLeaves,
   keys |-> [i \in NodeIndices |-> nodeAt(st.nodes, i).publicKey]]

NoOutcome ==
  [cid |-> 0, ok |-> FALSE, rootSecret |-> NoSecret, consistent |-> FALSE,
   nextEpoch |-> FALSE, treeUnchanged |-> TRUE, epochUnchanged |-> TRUE,
   epochBefore |-> 0, epochAfter |-> 0]

NoWelcomeOutcome ==
  [done |-> FALSE, ok |-> FALSE, rootSecret |-> NoSecret, committerRoot |-> NoSecret]

InitTree ==
  /\ tree = [m \in Members |->
               IF m = 0 THEN createForCreator(1, 1, <<2, 0>>) ELSE NewTreeKemState]
  /\ status = [m \in Members |-> IF m = 0 THEN "member" ELSE "absent"]
  /\ kemKp = [m \in Members |-> IF m = 0 THEN 1 ELSE NoKey]
  /\ epoch = [m \in Members |-> 0]
  /\ inbox = [m \in Members |-> <<>>]
  /\ nextId = 3
  /\ numCommits = 0
  /\ numRekeys = 0
  /\ welcomed = {}
  /\ removedLeaves = [m \in Members |-> {}]
  /\ removedPeers = [m \in Members |-> {}]
  /\ held = [m \in Members |-> IF m = 0 THEN {1} ELSE {}]
  /\ rootsKnown = [m \in Members |-> IF m = 0 THEN {<<2, 0>>} ELSE {}]
  /\ commitLog = <<>>
  /\ outcome = [m \in Members |-> NoOutcome]
  /\ welcomeOutcome = [m \in Members |-> NoWelcomeOutcome]

\* ------------------------------------------------------------------
\* Session: frames, keys and the TOFU store.
\* ------------------------------------------------------------------
Peers == 1..MaxPeers

\* A signing public key is a positive integer; a string that does not decode
\* to a well-formed key is a negative one.
MalformedKey == 0 - 1

isValidPublicKey(publicKeyBase64) == publicKeyBase64 > 0

isValidMlKemPublicKey(pqPublicKeyBase64) == base64ToUint8Array(pqPublicKeyBase64) > 0

\* A signature names the signing key and the KEM public key it was made over.
signMlKemPublicKey(signingKey, mlKemPub) == <<signingKey, mlKemPub>>

verifyMlKemSignature(signingPk, mlKemPub, sig) == sig = <<signingPk, mlKemPub>>

Frame(type, peerId, publicKey, pqPublicKey, sig, n) ==
  [type |-> type, peer_id |-> peerId, public_key |-> publicKey,
   pq_public_key |-> pqPublicKey, sig |-> sig, n |-> n]

\* key_announce of an honest participant, as the relay forwards it.
announcement(type, q) ==
  Frame(type, q, q, uint8ArrayToBase64(q), signMlKemPublicKey(q, q), 0)

isAnnouncement(f) == f.type \in {"peer_key", "peer_joined"}

\* verifiedAt undefined.
NoTime == 0

NoRecord == [peerId |-> 0, status |-> "none", verifiedAt |-> NoTime]

\* 30 days, in units of 15 days.
VERIFICATION_MAX_AGE_MS == 2

isVerificationExpired(record, now) ==
  IF record.status # "verified" THEN FALSE
  ELSE IF record.verifiedAt = NoTime THEN TRUE
  ELSE now - record.verifiedAt > VERIFICATION_MAX_AGE_MS

\* checkPeerKey: a stored record is rebound to the announcing peer and saved
\* before its status is looked at; a record whose verification has expired is
\* demoted.  lastSeen is not kept; written tells whether the store was saved.
checkPeerKey(store, peerId, publicKeyBase64, now) ==
  LET stored == store[publicKeyBase64]
  IN IF stored = NoRecord
     THEN [status |-> "unverified", isNewKey |-> TRUE, store |-> store, written |-> FALSE]
     ELSE IF isVerificationExpired(stored, now)
     THEN [status |-> "unverified", isNewKey |-> FALSE,
           store |-> [store EXCEPT ![publicKeyBase64] =
                        [peerId |-> peerId, status |-> "unverified",
                         verifiedAt |-> NoTime]],
           written |-> TRUE]
     ELSE [status |-> stored.status, isNewKey |-> FALSE,
           store |-> [store EXCEPT ![publicKeyBase64].peerId = peerId],
           written |-> TRUE]

storePeerKey(store, peerId, publicKeyBase64) ==
  LET existing == store[publicKeyBase64]
  IN [store EXCEPT ![publicKeyBase64] =
        [peerId |-> peerId,
         status |-> IF existing = NoRecord THEN "unverified" ELSE existing.status,
         verifiedAt |-> existing.verifiedAt]]

markAsVerified(store, peerId, publicKeyBase64, now) ==
  IF store[publicKeyBase64] # NoRecord
  THEN [store EXCEPT ![publicKeyBase64] =
          [peerId |-> peerId, status |-> "verified", verifiedAt |-> now]]
  ELSE store

resetVerification(store, publicKeyBase64) ==
  IF store[publicKeyBase64] # NoRecord
  THEN [store EXCEPT ![publicKeyBase64].status = "unverified",
                     ![publicKeyBase64].verifiedAt = NoTime]
  ELSE store

\* getStoredKey returns the record as stored (NoRecord stands for null).
getStoredKey(store, publicKeyBase64) == store[publicKeyBase64]

\* The first record in insertion order that is bound to peerId.
firstBoundTo(store, order, peerId) ==
  IF \E i \in 1..Len(order) : store[order[i]].peerId = peerId
  THEN store[order[CHOOSE i \in 1..Len(order) :
                     /\ store[order[i]].peerId = peerId
                     /\ \A h \in 1..(i - 1) : store[order[h]].peerId # peerId]]
  ELSE NoRecord

\* getStoredPeerKey; NoKey stands for an omitted publicKeyBase64.
getStoredPeerKey(store, order, peerId, publicKeyBase64) ==
  IF publicKeyBase64 # NoKey THEN getStoredKey(store, publicKeyBase64)
  ELSE firstBoundTo(store, order, peerId)

\* The TOFU check of add_peer: a record for the key that is bound to another
\* peer identity or marked key_changed.
tofuConflict(store, peerId, publicKeyBase64) ==
  /\ isValidPublicKey(publicKeyBase64)
  /\ store[publicKeyBase64] # NoRecord
  /\ \/ store[publicKeyBase64].peerId # peerId
     \/ store[publicKeyBase64].status = "key_changed"

\* The checks of GroupKeyManager.addPeer: key lengths and the signature.
addPeerAccepts(f) ==
  /\ isValidPublicKey(f.public_key)
  /\ f.pq_public_key # EmptyString
  /\ isValidMlKemPublicKey(f.pq_public_key)
  /\ verifyMlKemSignature(f.public_key, base64ToUint8Array(f.pq_public_key), f.sig)

\* shouldInitiateRekey: the smallest identifier among self and the registered
\* peers initiates; on an add the new peer is left out.
shouldInitiateRekey(reg, p, newPeer) ==
  \A q \in (reg \cup {p}) \ {newPeer} : p <= q

NoPeer == 0

sessionHasTreeState(p) == leaves[p] > 0

hasPeersIn(reg) == reg # {}

NothingSent == [type |-> "none", join |-> NoPeer]

InitSession ==
  /\ conn = [p \in Peers |-> "absent"]
  /\ queue = [p \in Peers |-> <<>>]
  /\ running = [p \in Peers |-> {}]
  /\ registry = [p \in Peers |-> {}]
  /\ leaves = [p \in Peers |-> 0]
  /\ tofu = [p \in Peers |-> [k \in Peers |-> NoRecord]]
  /\ handled = [p \in Peers |-> {}]
  /\ initiators = [p \in Peers |-> {}]
  /\ decided = [p \in Peers |-> {}]
  /\ audience = [p \in Peers |-> {}]
  /\ delivered = 0
  /\ lastSent = [p \in Peers |-> NothingSent]

StoreKeys == 1..MaxKeys

StorePeers == 1..MaxKeys

NoRead == [fn |-> "none", status |-> "none", expired |-> FALSE, stored |-> "none"]

InitStore ==
  /\ tofuStore = [k \in StoreKeys |-> NoRecord]
  /\ tofuOrder = <<>>
  /\ clock = 1
  /\ lastRead = NoRead
  /\ firstSeen = [k \in StoreKeys |-> NoTime]

\* The messages after which the initiator rekeys.
rekeyInterval == 50

\* What a return of sendMessage leaves to be seen of the counter.
returned(encrypted, before, count, rekeyed) ==
  [done |-> TRUE, encrypted |-> encrypted, added |-> count - before,
   below |-> count < rekeyInterval, zero |-> count = 0, rekeyed |-> rekeyed]

NoReturn ==
  [done |-> FALSE, encrypted |-> FALSE, added |-> 0, below |-> TRUE, zero |-> TRUE,
   rekeyed |-> FALSE]

NoReceive ==
  [done |-> FALSE, ok |-> FALSE, counted |-> FALSE, reset |-> FALSE, kept |-> FALSE,
   status |-> FALSE]

InitChat ==
  /\ chatId = NoPeer
  /\ chatPeers = {}
  /\ messagesSinceRekey = 0
  /\ encrypting = 0
  /\ committing = 0
  /\ receiving = 0
  /\ received = 0
  /\ streak = 0
  /\ lastReturn = NoReturn
  /\ lastReceive = NoReceive

NoAdd == [done |-> FALSE, before |-> 0, thrown |-> FALSE, unchanged |-> FALSE]

InitGrow ==
  /\ grown = createForCreator(1, 1, <<1, 0>>)
  /\ lastAdd = NoAdd

\* A chain as seeded on a new epoch: chain key 0 of that epoch, counter 0.
seedChain(e) == [epoch |-> e, chainKey |-> <<e, 0>>, counter |-> 0, skipped |-> <<>>]

NoChain == [epoch |-> 0 - 1, chainKey |-> <<>>, counter |-> 0, skipped |-> <<>>]

NoMessage ==
  [done |-> FALSE, ok |-> FALSE, error |-> "none", allowed |-> FALSE, late |-> FALSE,
   unchanged |-> TRUE, delivered |-> FALSE, correct |-> FALSE, cached |-> FALSE,
   evicted |-> FALSE, again |-> FALSE, fresh |-> FALSE, short |-> FALSE,
   behind |-> FALSE, afterFailure |-> FALSE]

InitRatchet ==
  /\ rxEpoch = 0
  /\ rxChain = seedChain(0)
  /\ rxPrev = NoChain
  /\ rxGrace = FALSE
  /\ rxGot = {}
  /\ lastMessage = NoMessage

InitSend ==
  /\ txSeeded = FALSE
  /\ txEpoch = 0
  /\ txCounter = 0
  /\ txPending = <<>>
  /\ txLog = <<>>

\* new GroupKeyManager(): no key pair, no chains.
NewKeyManager == [kem |-> FALSE, chains |-> FALSE, counter |-> 0, skipped |-> FALSE,
                  previous |-> FALSE]

NothingAfterClose == [decrypted |-> FALSE, changed |-> FALSE]

InitClose ==
  /\ ws = "null"
  /\ torn = FALSE
  /\ km = NewKeyManager
  /\ decrypting = 0
  /\ afterClose = NothingAfterClose

\* connect(password?) called without a password.
NoPassword == 0

Passwords == 1..MaxPasswords

NoWrapped == <<>>

NoConnect == [done |-> FALSE, protected |-> FALSE, given |-> "none", error |-> "none",
              opened |-> FALSE, unchanged |-> TRUE]

InitLogin ==
  /\ keyStore = [plain |-> NoKey, wrapped |-> NoWrapped]
  /\ socket = "null"
  /\ announced = FALSE
  /\ attempts = 0
  /\ lastConnect = NoConnect

Tabs == 1..MaxTabs

TabRooms == 1..MaxTabRooms

\* activeRoom = null
NoRoom == 0

\* rooms[roomId] undefined
NoClaim == <<>>

NoTabOp == [op |-> "none", owner |-> FALSE, claimed |-> FALSE, same |-> TRUE,
            others |-> TRUE, refreshed |-> FALSE]

InitTabs ==
  /\ activeRooms = [r \in TabRooms |-> NoClaim]
  /\ activeRoom = [t \in Tabs |-> NoRoom]
  /\ heartbeat = [t \in Tabs |-> FALSE]
  /\ beatAt = [t \in Tabs |-> 0]
  /\ foundFree = [t \in Tabs |-> NoRoom]
  /\ tabNow = 0
  /\ lastTab = NoTabOp

ColorPeers == 1..MaxColorPeers

ColorKeys == 1..MaxColorKeys

PEER_COLORS ==
  <<"black", "gray", "silver", "maroon", "red", "olive", "green", "lime", "navy", "blue",
    "teal", "cyan", "purple", "magenta", "orange", "gold">>

NoColor == "none"

\* Byte i of the SHA-256 digest of a public key: a fixed function of the key
\* under which the keys 2 and 3 agree on byte 0.
sha256Byte(key, i) == ((key \div 2) * 37 + key * i * i * 11 + i * 101) % 256

\* The loop of deriveColorPreferences from index i down to 1, on the 0-based
\* array remaining.
RECURSIVE shuffle(_, _, _)
shuffle(remaining, i, key) ==
  IF i < 1 THEN remaining
  ELSE shuffle([remaining EXCEPT ![i + 1] = remaining[(sha256Byte(key, i) % (i + 1)) + 1],
                                 ![(sha256Byte(key, i) % (i + 1)) + 1] = remaining[i + 1]],
               i - 1, key)

\* [...PEER_COLORS].filter((_, i) => i !== firstIndex)
allBut(firstIndex) ==
  [i \in 1..(Len(PEER_COLORS) - 1) |->
     IF i <= firstIndex THEN PEER_COLORS[i] ELSE PEER_COLORS[i + 1]]

deriveColorPreferences(key) ==
  <<PEER_COLORS[(sha256Byte(key, 0) % Len(PEER_COLORS)) + 1]>>
    \o shuffle(allBut(sha256Byte(key, 0) % Len(PEER_COLORS)), Len(PEER_COLORS) - 2, key)

\* this.colorPreferences.get(publicKey), for every key that has an entry.
preferencesOf == [key \in ColorKeys |-> deriveColorPreferences(key)]

NoColors == [op |-> "none", thrown |-> FALSE, gone |-> TRUE, shared |-> FALSE]

\* new GroupKeyManager(): no key, no peers, myColor 'blue'.
InitColors ==
  /\ myPublicKey = NoKey
  /\ peerPublicKeys = <<>>
  /\ colorPreferences = {}
  /\ peerColors = [p \in ColorPeers |-> NoColor]
  /\ myColor = "blue"
  /\ lastColors = NoColors

NoSafety == [mine |-> <<>>, peer |-> <<>>, number |-> <<>>]

InitSafety == lastSafety = NoSafety

Init == InitTree /\ InitSession /\ InitStore /\ InitChat /\ InitGrow /\ InitRatchet /\ InitSend /\ InitClose /\ InitLogin /\ InitTabs /\ InitColors /\ InitSafety

\* A new participant connects and announces its keys: the relay sends
\* peer_joined to everyone already connected.
Announce(j) ==
  /\ UNCHANGED outsideTree
  /\ status[j] = "absent"
  /\ \A m \in Members : m < j => status[m] \in {"member", "removed"}
  /\ status' = [status EXCEPT ![j] = "pending"]
  /\ kemKp' = [kemKp EXCEPT ![j] = nextId]
  /\ held' = [held EXCEPT ![j] = {nextId}]
  /\ nextId' = nextId + 1
  /\ inbox' = [m \in Members |->
                 IF m # j /\ connected(m)
                 THEN Append(inbox[m], [type |-> "peer_joined", peer_id |-> j,
                                        pq_public_key |-> uint8ArrayToBase64(nextId)])
                 ELSE inbox[m]]
  /\ UNCHANGED <<tree, epoch, numCommits, numRekeys, welcomed, removedLeaves, removedPeers, rootsKnown,
                 commitLog, outcome, welcomeOutcome>>

Join(j) == (\A m \in Members : inbox[m] = <<>>) /\ Announce(j)

\* A participant disconnects: the relay sends peer_left to everyone still
\* connected.
Leave(p) ==
  /\ UNCHANGED outsideTree
  /\ connected(p)
  /\ Cardinality({m \in Members : status[m] = "removed"}) < MaxDepartures
  /\ \E m \in Members : m # p /\ connected(m)
  /\ status' = [status EXCEPT ![p] = "removed"]
  /\ inbox' = [m \in Members |->
                 IF m = p THEN <<>>
                 ELSE IF connected(m)
                 THEN Append(inbox[m], [type |-> "peer_left", peer_id |-> p])
                 ELSE inbox[m]]
  /\ UNCHANGED <<tree, kemKp, epoch, nextId, numCommits, numRekeys, welcomed, removedLeaves, removedPeers,
                 held, rootsKnown, commitLog, outcome, welcomeOutcome>>

\* The relay delivers a tree_commit to every other connected participant.
broadcast(inb, sender, frame) ==
  [x \in Members |->
     IF x # sender /\ connected(x) THEN Append(inb[x], frame) ELSE inb[x]]

\* The relay delivers a tree_welcome to its target.
sendTo(inb, target, frame) ==
  [x \in Members |->
     IF x = target /\ connected(x) THEN Append(inb[x], frame) ELSE inb[x]]

\* The keys the non-empty entries of a commit are encapsulated to.
EncapsulationTargets(commit) ==
  {base64ToUint8Array(commit.path[i].mlKemCiphertext) :
     i \in {k \in 1..Len(commit.path) : commit.path[k].mlKemCiphertext # EmptyString}}

\* generateWelcome at a committer whose generateCommit left the tree st, for
\* each leaf position j other than its own that a participant announced a key
\* pair for, and fromWelcome at that participant with that key pair.
welcomeResult(res) ==
  [ok |-> res.ok,
   rootSecret |-> IF res.ok THEN getRootSecret(res.state) ELSE NoSecret]

welcomeRoundTrip(st, j, e) ==
  welcomeResult(fromWelcome(generateWelcome(st, j, kemKp[j], e), kemKp[j], kemKp[j]))

welcomeRoundTrips(st, e) ==
  [j \in {x \in Members : x < st.numLeaves /\ x # st.myLeafPos /\ kemKp[x] # NoKey} |->
     welcomeRoundTrip(st, j, e)]

\* What a rekey by c leaves: the committer's new state, the commit with its
\* epoch, the key pairs it used, the frame, and the record for commitLog (pre
\* is the committer's tree before generateCommit).
rekeyRecord(c, pre, state, commit) ==
  [state |-> state,
   commit |-> commit,
   used |-> Len(commit.path) + 1,
   keys |-> nextId..(nextId + Len(commit.path)),
   frame |-> [type |-> "tree_commit", peer_id |-> c, tree_commit |-> commit,
              cid |-> numCommits + 1],
   log |-> [committer |-> c,
            removed |-> removedLeaves[c],
            targets |-> EncapsulationTargets(commit),
            rootSecret |-> getRootSecret(state),
            roundTrips |-> welcomeRoundTrips(state, commit.epoch),
            prePub |-> PubView(pre)]]

rekeyOf(c, pre, gen) ==
  rekeyRecord(c, pre, gen.state, [gen.commit EXCEPT !.epoch = epoch[c] + 1])

\* initiateRekey on the tree pre: epoch++, generateCommit, and the commit
\* carries the new epoch.
initiateRekeyOn(c, pre) == rekeyOf(c, pre, generateCommit(pre, nextId))

initiateRekey(c) == initiateRekeyOn(c, tree[c])

\* The committer's side of a rekey r.
Committed(c, r) ==
  /\ tree' = [tree EXCEPT ![c] = r.state]
  /\ epoch' = [epoch EXCEPT ![c] = r.commit.epoch]
  /\ nextId' = nextId + r.used
  /\ held' = [held EXCEPT ![c] = held[c] \cup r.keys]
  /\ rootsKnown' = [rootsKnown EXCEPT ![c] = rootsKnown[c] \cup {r.log.rootSecret}]
  /\ commitLog' = Append(commitLog, r.log)
  /\ numCommits' = numCommits + 1

SentCommit(c, r) ==
  /\ Committed(c, r)
  /\ inbox' = broadcast(inbox, c, r.frame)

\* sendTreeCommit on an interval or after a departure.
Commit(c) ==
  /\ UNCHANGED outsideTree
  /\ status[c] = "member"
  /\ hasTreeState(c)
  /\ hasPeers(c)
  /\ numRekeys < MaxCommits
  /\ \A m \in Members : inbox[m] = <<>>
  /\ SentCommit(c, initiateRekey(c))
  /\ numRekeys' = numRekeys + 1
  /\ UNCHANGED <<status, kemKp, welcomed, removedLeaves, removedPeers, outcome, welcomeOutcome>>

\* peer_joined at a participant that does not initiate: addPeer adds the leaf
\* when there is a tree.
HandlePeerJoined(m) ==
  /\ UNCHANGED outsideTree
  /\ connected(m)
  /\ inbox[m] # <<>>
  /\ Head(inbox[m]).type = "peer_joined"
  /\ LET f == Head(inbox[m])
     IN tree' = [tree EXCEPT ![m] =
                   IF hasTreeState(m)
                   THEN addLeaf(tree[m], base64ToUint8Array(f.pq_public_key))
                   ELSE tree[m]]
  /\ inbox' = [inbox EXCEPT ![m] = Tail(inbox[m])]
  /\ UNCHANGED <<status, kemKp, epoch, nextId, numCommits, numRekeys, welcomed, removedLeaves, removedPeers,
                 held, rootsKnown, commitLog, outcome, welcomeOutcome>>

\* sendTreeCommit and sendTreeWelcome for joiner j (generateWelcome on the
\* tree the commit left, for the leaf addLeaf gave the joiner).
SentCommitAndWelcome(m, j, joinerPk, r) ==
  /\ Committed(m, r)
  /\ inbox' =
       sendTo(broadcast([inbox EXCEPT ![m] = Tail(inbox[m])], m, r.frame),
              j,
              [type |-> "tree_welcome", peer_id |-> m, target_peer_id |-> j,
               tree_welcome |-> generateWelcome(r.state, r.state.numLeaves - 1,
                                                joinerPk, r.commit.epoch),
               cid |-> numCommits + 1])

\* peer_joined at the initiator: addPeer, then sendTreeCommit and
\* sendTreeWelcome.
HandlePeerJoinedInitiate(m) ==
  /\ UNCHANGED outsideTree
  /\ connected(m)
  /\ inbox[m] # <<>>
  /\ Head(inbox[m]).type = "peer_joined"
  /\ hasTreeState(m)
  /\ Head(inbox[m]).peer_id \notin welcomed
  /\ SentCommitAndWelcome(
       m, Head(inbox[m]).peer_id,
       base64ToUint8Array(Head(inbox[m]).pq_public_key),
       initiateRekeyOn(m, addLeaf(tree[m], base64ToUint8Array(Head(inbox[m]).pq_public_key))))
  /\ welcomed' = welcomed \cup {Head(inbox[m]).peer_id}
  /\ UNCHANGED <<status, kemKp, numRekeys, removedLeaves, removedPeers, outcome, welcomeOutcome>>

\* peer_left: removePeer calls removeLeaf when there is a tree.
HandlePeerLeft(m) ==
  /\ UNCHANGED outsideTree
  /\ connected(m)
  /\ inbox[m] # <<>>
  /\ Head(inbox[m]).type = "peer_left"
  /\ LET p == Head(inbox[m]).peer_id
     IN /\ tree' = [tree EXCEPT ![m] =
                      IF hasTreeState(m) THEN removeLeaf(tree[m], p) ELSE tree[m]]
        /\ removedLeaves' = [removedLeaves EXCEPT ![m] =
                               IF hasTreeState(m) THEN removedLeaves[m] \cup {p}
                               ELSE removedLeaves[m]]
        /\ removedPeers' = [removedPeers EXCEPT ![m] = removedPeers[m] \cup {p}]
  /\ inbox' = [inbox EXCEPT ![m] = Tail(inbox[m])]
  /\ UNCHANGED <<status, kemKp, epoch, nextId, numCommits, numRekeys, welcomed, held,
                 rootsKnown, commitLog, outcome, welcomeOutcome>>

\* What receiveCommit leaves at m for frame f, res being what processCommit
\* returned: on success the epoch becomes the commit's.
ReceivedCommit(m, f, res, newEpoch) ==
  /\ tree' = [tree EXCEPT ![m] = res.state]
  /\ epoch' = [epoch EXCEPT ![m] = newEpoch]
  /\ rootsKnown' = [rootsKnown EXCEPT ![m] =
                      IF res.ok THEN rootsKnown[m] \cup {res.rootSecret}
                      ELSE rootsKnown[m]]
  /\ outcome' = [outcome EXCEPT ![m] =
       [cid |-> f.cid,
        ok |-> res.ok,
        rootSecret |-> res.rootSecret,
        consistent |-> PubView(tree[m]) = commitLog[f.cid].prePub,
        nextEpoch |-> f.tree_commit.epoch = epoch[m] + 1,
        treeUnchanged |-> res.state = tree[m],
        epochUnchanged |-> newEpoch = epoch[m],
        epochBefore |-> epoch[m],
        epochAfter |-> newEpoch]]

receiveCommit(m, f, res) ==
  ReceivedCommit(m, f, res, IF res.ok THEN f.tree_commit.epoch ELSE epoch[m])

\* tree_commit: receiveCommit runs processCommit on the tree.  A participant
\* without a tree drops the frame.
HandleTreeCommit(m) ==
  /\ UNCHANGED outsideTree
  /\ connected(m)
  /\ inbox[m] # <<>>
  /\ Head(inbox[m]).type = "tree_commit"
  /\ IF hasTreeState(m)
     THEN receiveCommit(m, Head(inbox[m]),
                        processCommit(tree[m], Head(inbox[m]).tree_commit))
     ELSE UNCHANGED <<tree, epoch, rootsKnown, outcome>>
  /\ inbox' = [inbox EXCEPT ![m] = Tail(inbox[m])]
  /\ UNCHANGED <<status, kemKp, nextId, numCommits, numRekeys, welcomed, removedLeaves, removedPeers, held,
                 commitLog, welcomeOutcome>>

\* What receiveWelcome leaves at m for frame f, res being what fromWelcome
\* returned.
receiveWelcome(m, f, res) ==
  /\ tree' = [tree EXCEPT ![m] = IF res.ok THEN res.state ELSE tree[m]]
  /\ epoch' = [epoch EXCEPT ![m] = IF res.ok THEN f.tree_welcome.epoch ELSE epoch[m]]
  /\ status' = [status EXCEPT ![m] = IF res.ok THEN "member" ELSE status[m]]
  /\ rootsKnown' = [rootsKnown EXCEPT ![m] =
                      IF res.ok THEN rootsKnown[m] \cup {getRootSecret(res.state)}
                      ELSE rootsKnown[m]]
  /\ welcomeOutcome' = [welcomeOutcome EXCEPT ![m] =
       [done |-> TRUE,
        ok |-> res.ok,
        rootSecret |-> IF res.ok THEN getRootSecret(res.state) ELSE NoSecret,
        committerRoot |-> commitLog[f.cid].rootSecret]]

\* tree_welcome: fromWelcome with the key pair the participant announced.
HandleTreeWelcome(m) ==
  /\ UNCHANGED outsideTree
  /\ connected(m)
  /\ inbox[m] # <<>>
  /\ Head(inbox[m]).type = "tree_welcome"
  /\ receiveWelcome(m, Head(inbox[m]),
                    fromWelcome(Head(inbox[m]).tree_welcome, kemKp[m], kemKp[m]))
  /\ inbox' = [inbox EXCEPT ![m] = Tail(inbox[m])]
  /\ UNCHANGED <<kemKp, nextId, numCommits, numRekeys, welcomed, removedLeaves, removedPeers, held,
                 commitLog, outcome>>

Next ==
  \/ \E j \in Members : Join(j)
  \/ \E p \in Members : Leave(p)
  \/ \E c \in Members : Commit(c)
  \/ \E m \in Members : HandlePeerJoined(m)
  \/ \E m \in Members : HandlePeerJoinedInitiate(m)
  \/ \E m \in Members : HandlePeerLeft(m)
  \/ \E m \in Members : HandleTreeCommit(m)
  \/ \E m \in Members : HandleTreeWelcome(m)

Spec == Init /\ [][Next]_vars

\* ==================================================================
\* The same handlers under a quiet schedule: a participant joins, leaves or
\* rekeys only when every inbox is empty, and the inboxes are emptied one
\* participant after the other.  No frame is ever handled late, so the trees
\* grow to MaxLeaves leaves and generateWelcome / fromWelcome are applied to
\* every tree the group reaches.
\* ==================================================================
Quiet == \A m \in Members : inbox[m] = <<>>

Turn(m) == inbox[m] # <<>> /\ \A x \in Members : x < m => inbox[x] = <<>>

QuietJoin(j) == Quiet /\ Announce(j)

QuietLeave(p) == Quiet /\ Leave(p)

NextQuiet ==
  \/ \E j \in Members : QuietJoin(j)
  \/ \E p \in Members : QuietLeave(p)
  \/ \E c \in Members : Commit(c)
  \/ \E m \in Members : Turn(m) /\ HandlePeerJoined(m)
  \/ \E m \in Members : Turn(m) /\ HandlePeerJoinedInitiate(m)
  \/ \E m \in Members : Turn(m) /\ HandlePeerLeft(m)
  \/ \E m \in Members : Turn(m) /\ HandleTreeCommit(m)
  \/ \E m \in Members : Turn(m) /\ HandleTreeWelcome(m)

SpecQuiet == Init /\ [][NextQuiet]_vars

\* ==================================================================
\* The session dispatcher.  ws.onmessage starts handleMessage for each frame;
\* handleMessage runs to its first await and is resumed when the awaited
\* operation settles, so the message event of the next frame can fire while
\* earlier executions are suspended.
\* ==================================================================
send(q, sender, frame) ==
  [x \in Peers |->
     IF x # sender /\ conn[x] = "connected" /\ (frame.type = "tree_welcome" => x = frame.peer_id)
     THEN Append(q[x], frame) ELSE q[x]]

RECURSIVE peerKeyFrames(_)
peerKeyFrames(S) ==
  IF S = {} THEN <<>>
  ELSE LET q == CHOOSE x \in S : \A y \in S : x <= y
       IN <<announcement("peer_key", q)>> \o peerKeyFrames(S \ {q})

Connected == {q \in Peers : conn[q] = "connected"}

\* connect, the relay's welcome and key_announce: the first participant of the
\* room is the creator and builds a single-leaf tree; the relay sends the
\* joiner a peer_key per participant and everyone else its peer_joined.
Connect(p) ==
  /\ conn[p] = "absent"
  /\ conn' = [conn EXCEPT ![p] = "connected"]
  /\ leaves' = [leaves EXCEPT ![p] = IF \A q \in Peers : conn[q] = "absent" THEN 1 ELSE 0]
  /\ queue' = [x \in Peers |->
                 IF x = p THEN peerKeyFrames(Connected)
                 ELSE IF conn[x] = "connected"
                 THEN Append(queue[x], announcement("peer_joined", p))
                 ELSE queue[x]]
  /\ audience' = [audience EXCEPT ![p] = Connected]
  /\ UNCHANGED <<running, registry, tofu, handled, initiators, decided, delivered, lastSent>>
  /\ UNCHANGED outsideSession

\* disconnect, at a moment when no frame is pending anywhere: the relay sends
\* peer_left to everyone else.
Disconnect(p) ==
  /\ conn[p] = "connected"
  /\ \A x \in Peers : queue[x] = <<>> /\ running[x] = {}
  /\ Cardinality({q \in Peers : conn[q] = "gone"}) < MaxDepartures
  /\ conn' = [conn EXCEPT ![p] = "gone"]
  /\ queue' = [x \in Peers |->
                 IF x = p THEN <<>>
                 ELSE IF conn[x] = "connected"
                 THEN Append(queue[x], Frame("peer_left", p, NoKey, EmptyString, <<>>, 0))
                 ELSE queue[x]]
  /\ running' = [running EXCEPT ![p] = {}]
  /\ UNCHANGED <<registry, leaves, tofu, handled, initiators, decided, audience, delivered,
                 lastSent>>
  /\ UNCHANGED outsideSession

\* The relay (or a peer behind it) delivers an announcement of its choosing.
AnnounceTo(p, f) ==
  /\ conn[p] = "connected"
  /\ delivered < MaxAnnouncements
  /\ delivered' = delivered + 1
  /\ queue' = [queue EXCEPT ![p] = Append(queue[p], f)]
  /\ UNCHANGED <<conn, running, registry, leaves, tofu, handled, initiators, decided,
                 audience, lastSent>>
  /\ UNCHANGED outsideSession

\* The record the store holds for a signing key (store.peers[key]).
storedRecord(store, publicKeyBase64) ==
  IF isValidPublicKey(publicKeyBase64) THEN store[publicKeyBase64] ELSE NoRecord

\* What an announcement's handling did, kept once the handler returns.
Handled(h, rejected, emitted) ==
  [frame |-> h.frame, conflict |-> h.conflict, tofuWritten |-> h.tofuWritten,
   before |-> h.before, after |-> h.after, keyChange |-> h.keyChange,
   afterCommit |-> h.afterCommit,
   rejected |-> rejected, admitted |-> ~rejected, notified |-> ~rejected,
   emitted |-> emitted]

\* peer_key / peer_joined up to `await addPeer`: the signing key, the presence
\* of the KEM key, checkPeerKey and storePeerKey.
DispatchAnnouncement(p) ==
  /\ conn[p] = "connected"
  /\ Cardinality(running[p]) < MaxRunning
  /\ queue[p] # <<>>
  /\ isAnnouncement(Head(queue[p]))
  /\ LET f == Head(queue[p])
         keyCheck == checkPeerKey(tofu[p], f.peer_id, f.public_key, clock)
         h == [frame |-> f, at |-> "addPeer",
               conflict |-> tofuConflict(tofu[p], f.peer_id, f.public_key),
               tofuWritten |-> FALSE,
               before |-> storedRecord(tofu[p], f.public_key),
               after |-> storedRecord(tofu[p], f.public_key),
               keyChange |-> FALSE,
               afterCommit |-> FALSE]
     IN IF ~isValidPublicKey(f.public_key) \/ f.pq_public_key = EmptyString
        THEN /\ handled' = [handled EXCEPT ![p] = handled[p] \cup {Handled(h, TRUE, FALSE)}]
             /\ UNCHANGED <<tofu, running>>
        ELSE IF keyCheck.status = "key_changed"
        THEN /\ tofu' = [tofu EXCEPT ![p] = keyCheck.store]
             /\ handled' = [handled EXCEPT ![p] = handled[p] \cup
                              {Handled([h EXCEPT !.tofuWritten = keyCheck.written,
                                                 !.after = keyCheck.store[f.public_key],
                                                 !.keyChange = TRUE],
                                       TRUE, FALSE)}]
             /\ UNCHANGED running
        ELSE /\ tofu' = [tofu EXCEPT ![p] =
                           IF keyCheck.isNewKey
                           THEN storePeerKey(keyCheck.store, f.peer_id, f.public_key)
                           ELSE keyCheck.store]
             /\ running' = [running EXCEPT ![p] =
                              running[p] \cup
                                {[h EXCEPT !.tofuWritten = TRUE,
                                           !.after = tofu'[p][f.public_key]]}]
             /\ UNCHANGED handled
  /\ queue' = [queue EXCEPT ![p] = Tail(queue[p])]
  /\ UNCHANGED <<conn, registry, leaves, initiators, decided, audience, delivered, lastSent>>
  /\ UNCHANGED outsideSession

\* The join an announcement belongs to: the announced peer for peer_joined,
\* the receiving joiner for peer_key.
joinOf(p, f) == IF f.type = "peer_joined" THEN f.peer_id ELSE p

\* peer_key / peer_joined from `await addPeer` on: a failure returns; a success
\* registers the peer, adds its leaf, calls onPeerJoined and, with a tree and
\* elected, goes on to sendTreeCommit.
afterAddPeer(p, h) ==
  LET f == h.frame
      reg == registry[p] \cup {f.peer_id}
      initiate == sessionHasTreeState(p) /\ shouldInitiateRekey(reg, p, f.peer_id)
  IN IF ~addPeerAccepts(f)
     THEN /\ handled' = [handled EXCEPT ![p] = handled[p] \cup {Handled(h, TRUE, FALSE)}]
          /\ running' = [running EXCEPT ![p] = running[p] \ {h}]
          /\ UNCHANGED <<registry, leaves, initiators, decided>>
     ELSE /\ registry' = [registry EXCEPT ![p] = reg]
          /\ leaves' = [leaves EXCEPT ![p] = IF leaves[p] > 0 THEN leaves[p] + 1 ELSE 0]
          /\ decided' = [decided EXCEPT ![joinOf(p, f)] = decided[joinOf(p, f)] \cup {p}]
          /\ IF initiate
             THEN /\ initiators' = [initiators EXCEPT ![joinOf(p, f)] =
                                      initiators[joinOf(p, f)] \cup {p}]
                  /\ running' = [running EXCEPT ![p] =
                                   (running[p] \ {h}) \cup {[h EXCEPT !.at = "sendTreeCommit"]}]
                  /\ UNCHANGED handled
             ELSE /\ handled' = [handled EXCEPT ![p] =
                                   handled[p] \cup {Handled(h, FALSE, FALSE)}]
                  /\ running' = [running EXCEPT ![p] = running[p] \ {h}]
                  /\ UNCHANGED initiators

ResumeAddPeer(p) ==
  /\ \E h \in running[p] : h.at = "addPeer" /\ afterAddPeer(p, h)
  /\ UNCHANGED <<conn, queue, tofu, audience, delivered, lastSent>>
  /\ UNCHANGED outsideSession

\* sendTreeCommit of the initiator of a join: initiateRekey settles and the
\* commit is sent; sendTreeWelcome is called next.
ResumeSendTreeCommit(p) ==
  /\ \E h \in running[p] :
       /\ h.at = "sendTreeCommit"
       /\ queue' = send(queue, p, Frame("tree_commit", p, NoKey, EmptyString, <<>>, 0))
       /\ lastSent' = [lastSent EXCEPT ![p] =
                         [type |-> "tree_commit", join |-> h.frame.peer_id]]
       /\ running' = [running EXCEPT ![p] =
                        (running[p] \ {h}) \cup {[h EXCEPT !.at = "sendTreeWelcome"]}]
  /\ UNCHANGED <<conn, registry, leaves, tofu, handled, initiators, decided, audience,
                 delivered>>
  /\ UNCHANGED outsideSession

\* sendTreeWelcome: generateWelcomeForPeer settles and the welcome is sent.
ResumeSendTreeWelcome(p) ==
  /\ \E h \in running[p] :
       /\ h.at = "sendTreeWelcome"
       /\ queue' = send(queue, p, Frame("tree_welcome", h.frame.peer_id, NoKey, EmptyString,
                                        <<>>, leaves[p]))
       /\ lastSent' = [lastSent EXCEPT ![p] =
                         [type |-> "tree_welcome", join |-> h.frame.peer_id]]
       /\ running' = [running EXCEPT ![p] = running[p] \ {h}]
       /\ handled' = [handled EXCEPT ![p] = handled[p] \cup
                        {Handled([h EXCEPT !.afterCommit =
                                    lastSent[p] = [type |-> "tree_commit",
                                                   join |-> h.frame.peer_id]],
                                 FALSE, TRUE)}]
  /\ UNCHANGED <<conn, registry, leaves, tofu, initiators, decided, audience, delivered>>
  /\ UNCHANGED outsideSession

\* peer_left: removePeer, and sendTreeCommit when elected with peers left.
DispatchPeerLeft(p) ==
  /\ conn[p] = "connected"
  /\ Cardinality(running[p]) < MaxRunning
  /\ queue[p] # <<>>
  /\ Head(queue[p]).type = "peer_left"
  /\ LET f == Head(queue[p])
         reg == registry[p] \ {f.peer_id}
     IN /\ registry' = [registry EXCEPT ![p] = reg]
        /\ running' = [running EXCEPT ![p] =
                         IF shouldInitiateRekey(reg, p, NoPeer) /\ hasPeersIn(reg)
                         THEN running[p] \cup {[frame |-> f, at |-> "rekey",
                                                conflict |-> FALSE, tofuWritten |-> FALSE]}
                         ELSE running[p]]
  /\ queue' = [queue EXCEPT ![p] = Tail(queue[p])]
  /\ UNCHANGED <<conn, leaves, tofu, handled, initiators, decided, audience, delivered,
                 lastSent>>
  /\ UNCHANGED outsideSession

\* sendTreeCommit after a departure: initiateRekey throws without a tree.
ResumeRekey(p) ==
  /\ \E h \in running[p] :
       /\ h.at = "rekey"
       /\ queue' = IF sessionHasTreeState(p)
                   THEN send(queue, p, Frame("tree_commit", p, NoKey, EmptyString, <<>>, 0))
                   ELSE queue
       /\ lastSent' = IF sessionHasTreeState(p)
                      THEN [lastSent EXCEPT ![p] = [type |-> "tree_commit", join |-> NoPeer]]
                      ELSE lastSent
       /\ running' = [running EXCEPT ![p] = running[p] \ {h}]
  /\ UNCHANGED <<conn, registry, leaves, tofu, handled, initiators, decided, audience,
                 delivered>>
  /\ UNCHANGED outsideSession

\* tree_commit up to `await receiveCommit`.
DispatchTreeCommit(p) ==
  /\ conn[p] = "connected"
  /\ Cardinality(running[p]) < MaxRunning
  /\ queue[p] # <<>>
  /\ Head(queue[p]).type = "tree_commit"
  /\ running' = [running EXCEPT ![p] =
                   running[p] \cup {[frame |-> Head(queue[p]), at |-> "receiveCommit",
                                     conflict |-> FALSE, tofuWritten |-> FALSE]}]
  /\ queue' = [queue EXCEPT ![p] = Tail(queue[p])]
  /\ UNCHANGED <<conn, registry, leaves, tofu, handled, initiators, decided, audience,
                 delivered, lastSent>>
  /\ UNCHANGED outsideSession

\* receiveCommit settles; the tree keeps its leaves.
ResumeReceiveCommit(p) ==
  /\ \E h \in running[p] :
       /\ h.at = "receiveCommit"
       /\ running' = [running EXCEPT ![p] = running[p] \ {h}]
  /\ UNCHANGED <<conn, queue, registry, leaves, tofu, handled, initiators, decided,
                 audience, delivered, lastSent>>
  /\ UNCHANGED outsideSession

\* tree_welcome up to `await receiveWelcome`.
DispatchTreeWelcome(p) ==
  /\ conn[p] = "connected"
  /\ Cardinality(running[p]) < MaxRunning
  /\ queue[p] # <<>>
  /\ Head(queue[p]).type = "tree_welcome"
  /\ running' = [running EXCEPT ![p] =
                   running[p] \cup {[frame |-> Head(queue[p]), at |-> "receiveWelcome",
                                     conflict |-> FALSE, tofuWritten |-> FALSE]}]
  /\ queue' = [queue EXCEPT ![p] = Tail(queue[p])]
  /\ UNCHANGED <<conn, registry, leaves, tofu, handled, initiators, decided, audience,
                 delivered, lastSent>>
  /\ UNCHANGED outsideSession

\* receiveWelcome settles: the tree of the welcome is installed.
ResumeReceiveWelcome(p) ==
  /\ \E h \in running[p] :
       /\ h.at = "receiveWelcome"
       /\ leaves' = [leaves EXCEPT ![p] = h.frame.n]
       /\ running' = [running EXCEPT ![p] = running[p] \ {h}]
  /\ UNCHANGED <<conn, queue, registry, tofu, handled, initiators, decided, audience,
                 delivered, lastSent>>
  /\ UNCHANGED outsideSession

NextSession ==
  \/ \E p \in Peers : Connect(p)
  \/ \E p \in Peers : Disconnect(p)
  \/ \E p \in Peers : DispatchAnnouncement(p)
  \/ \E p \in Peers : ResumeAddPeer(p)
  \/ \E p \in Peers : ResumeSendTreeCommit(p)
  \/ \E p \in Peers : ResumeSendTreeWelcome(p)
  \/ \E p \in Peers : DispatchPeerLeft(p)
  \/ \E p \in Peers : ResumeRekey(p)
  \/ \E p \in Peers : DispatchTreeCommit(p)
  \/ \E p \in Peers : ResumeReceiveCommit(p)
  \/ \E p \in Peers : DispatchTreeWelcome(p)
  \/ \E p \in Peers : ResumeReceiveWelcome(p)

SpecSession == Init /\ [][NextSession]_vars

\* ------------------------------------------------------------------
\* One participant, the creator of the room, and the announcements a relay
\* can put on its socket: any peer, a well-formed or malformed signing key, a
\* KEM key that is absent, of the wrong length or well-formed, a signature
\* that verifies or one made with another key.
\* ------------------------------------------------------------------
Local == 1

Announcements ==
  {Frame(type, q, k, pq, sig, 0) :
     type \in {"peer_key", "peer_joined"},
     q \in Peers \ {Local},
     k \in {2, MalformedKey},
     pq \in {EmptyString, uint8ArrayToBase64(MalformedKey), uint8ArrayToBase64(2)},
     sig \in {signMlKemPublicKey(2, 2), signMlKemPublicKey(3, 2)}}

Open == Connect(Local)

Announced == \E f \in Announcements : AnnounceTo(Local, f)

NextAnnounce ==
  \/ Open
  \/ Announced
  \/ DispatchAnnouncement(Local)
  \/ ResumeAddPeer(Local)
  \/ ResumeSendTreeCommit(Local)
  \/ ResumeSendTreeWelcome(Local)

SpecAnnounce == Init /\ [][NextAnnounce]_vars

\* ==================================================================
\* The TOFU store on its own: the exported functions of tofu.ts called in any
\* order while the clock advances.
\* ==================================================================
Read(fn, reported, record, stored) ==
  [fn |-> fn, status |-> reported.status,
   expired |-> isVerificationExpired(record, clock), stored |-> stored.status]

\* existing?.firstSeen || now
firstSeenNow(existing, now) == now

firstSeenOf(existing, now) == IF existing # NoTime THEN existing ELSE now

StorePeerKey(p, k) ==
  /\ tofuStore' = storePeerKey(tofuStore, p, k)
  /\ tofuOrder' = IF tofuStore[k] = NoRecord THEN Append(tofuOrder, k) ELSE tofuOrder
  /\ firstSeen' = [firstSeen EXCEPT ![k] = firstSeenOf(firstSeen[k], clock)]
  /\ UNCHANGED <<clock, lastRead>>
  /\ UNCHANGED outsideStore

CheckedPeerKey(k, keyCheck) ==
  /\ tofuStore' = keyCheck.store
  /\ lastRead' = Read("checkPeerKey", keyCheck, tofuStore[k], keyCheck.store[k])

CheckPeerKey(p, k) ==
  /\ CheckedPeerKey(k, checkPeerKey(tofuStore, p, k, clock))
  /\ UNCHANGED <<tofuOrder, clock, firstSeen>>
  /\ UNCHANGED outsideStore

MarkAsVerified(p, k) ==
  /\ tofuStore' = markAsVerified(tofuStore, p, k, clock)
  /\ UNCHANGED <<tofuOrder, clock, lastRead, firstSeen>>
  /\ UNCHANGED outsideStore

ResetVerification(k) ==
  /\ tofuStore' = resetVerification(tofuStore, k)
  /\ UNCHANGED <<tofuOrder, clock, lastRead, firstSeen>>
  /\ UNCHANGED outsideStore

GotStoredPeerKey(record) ==
  lastRead' = Read("getStoredPeerKey", record, record, record)

\* A read of the store by the user interface, with or without the key.
GetStoredPeerKey(p, k) ==
  /\ GotStoredPeerKey(getStoredPeerKey(tofuStore, tofuOrder, p, k))
  /\ UNCHANGED <<tofuStore, tofuOrder, clock, firstSeen>>
  /\ UNCHANGED outsideStore

Tick ==
  /\ clock < MaxClock
  /\ clock' = clock + 1
  /\ UNCHANGED <<tofuStore, tofuOrder, lastRead, firstSeen>>
  /\ UNCHANGED outsideStore

NextTofu ==
  \/ \E p \in StorePeers, k \in StoreKeys : StorePeerKey(p, k)
  \/ \E p \in StorePeers, k \in StoreKeys : CheckPeerKey(p, k)
  \/ \E p \in StorePeers, k \in StoreKeys : MarkAsVerified(p, k)
  \/ \E k \in StoreKeys : ResetVerification(k)
  \/ \E p \in StorePeers, k \in StoreKeys \cup {NoKey} : GetStoredPeerKey(p, k)
  \/ Tick

SpecTofu == Init /\ [][NextTofu]_vars

\* ==================================================================
\* One ChatConnection sending messages: sendMessage, sendTreeCommit and the
\* tree_commit handler, each suspended at its awaits.  The peers of the room
\* are the environment: they send a tree_commit when they choose to.
\* ==================================================================
\* The participants of the room of the chat.
Room == 1..MaxRoom

\* hasChain: the chains are seeded once the participant is in the room.
hasChain == chatId # NoPeer

\* The test of sendMessage after the increment.
rekeyDueLate(count) ==
  /\ count > rekeyInterval
  /\ shouldInitiateRekey(chatPeers, chatId, NoPeer)
  /\ hasPeersIn(chatPeers)

rekeyDue(count) ==
  /\ count >= rekeyInterval
  /\ shouldInitiateRekey(chatPeers, chatId, NoPeer)
  /\ hasPeersIn(chatPeers)

\* The counter the tree_commit handler leaves: reset when receiveCommit
\* returned, untouched when it threw.
afterReceiveCommitAlways(count, ok) == 0

afterReceiveCommit(count, ok) == IF ok THEN 0 ELSE count

\* The relay's welcome: the participant is in the room with the peers that
\* announced themselves.
OpenChat(id, peers) ==
  /\ chatId = NoPeer
  /\ chatId' = id
  /\ chatPeers' = peers
  /\ UNCHANGED <<messagesSinceRekey, encrypting, committing, receiving, received, streak,
                 lastReturn, lastReceive>>
  /\ UNCHANGED outsideChat

\* sendMessage up to await encryptMessage; without a chain it returns at once.
CallSendMessage ==
  /\ encrypting + committing < MaxRunning
  /\ streak <= rekeyInterval
  /\ IF hasChain
     THEN /\ encrypting' = encrypting + 1
          /\ UNCHANGED lastReturn
     ELSE /\ lastReturn' = returned(FALSE, messagesSinceRekey, messagesSinceRekey, FALSE)
          /\ UNCHANGED encrypting
  /\ UNCHANGED <<chatId, chatPeers, messagesSinceRekey, committing, receiving, received,
                 streak, lastReceive>>
  /\ UNCHANGED outsideChat

\* sendMessage once encryptMessage has returned count being the counter after
\* the increment: sendTreeCommit is called when the rekey is due.
Encrypted(count) ==
  /\ messagesSinceRekey' = count
  /\ streak' = streak + 1
  /\ IF rekeyDue(count)
     THEN /\ committing' = committing + 1
          /\ UNCHANGED lastReturn
     ELSE /\ lastReturn' = returned(TRUE, messagesSinceRekey, count, FALSE)
          /\ UNCHANGED committing

\* sendMessage from await encryptMessage on: the message is sent and counted;
\* when encryptMessage throws sendMessage rejects and counts nothing.
ResumeEncrypt(ok) ==
  /\ encrypting > 0
  /\ encrypting' = encrypting - 1
  /\ IF ok THEN Encrypted(messagesSinceRekey + 1)
     ELSE UNCHANGED <<messagesSinceRekey, streak, committing, lastReturn>>
  /\ UNCHANGED <<chatId, chatPeers, receiving, received, lastReceive>>
  /\ UNCHANGED outsideChat

\* sendTreeCommit from await initiateRekey on: the commit is sent, the counter
\* reset, and sendMessage returns.
ResumeInitiateRekey ==
  /\ committing > 0
  /\ committing' = committing - 1
  /\ messagesSinceRekey' = 0
  /\ streak' = 0
  /\ lastReturn' = returned(TRUE, 0, 0, TRUE)
  /\ UNCHANGED <<chatId, chatPeers, encrypting, receiving, received, lastReceive>>
  /\ UNCHANGED outsideChat

\* tree_commit up to await receiveCommit.
ReceiveTreeCommit ==
  /\ hasChain
  /\ hasPeersIn(chatPeers)
  /\ received < MaxReceived
  /\ received' = received + 1
  /\ receiving' = receiving + 1
  /\ streak' = 0
  /\ UNCHANGED <<chatId, chatPeers, messagesSinceRekey, encrypting, committing, lastReturn,
                 lastReceive>>
  /\ UNCHANGED outsideChat

\* tree_commit from await receiveCommit on: it returned (ok) or threw.
ResumeReceive(ok) ==
  /\ receiving > 0
  /\ receiving' = receiving - 1
  /\ messagesSinceRekey' = afterReceiveCommit(messagesSinceRekey, ok)
  /\ lastReceive' = [done |-> TRUE, ok |-> ok, counted |-> messagesSinceRekey > 0,
                     reset |-> messagesSinceRekey' = 0,
                     kept |-> messagesSinceRekey' = messagesSinceRekey, status |-> ok]
  /\ UNCHANGED <<chatId, chatPeers, encrypting, committing, received, streak, lastReturn>>
  /\ UNCHANGED outsideChat

NextChat ==
  \/ \E id \in Room : \E peers \in SUBSET (Room \ {id}) : OpenChat(id, peers)
  \/ CallSendMessage
  \/ \E ok \in BOOLEAN : ResumeEncrypt(ok)
  \/ ResumeInitiateRekey
  \/ ReceiveTreeCommit
  \/ \E ok \in BOOLEAN : ResumeReceive(ok)

SpecChat == Init /\ [][NextChat]_vars

\* ==================================================================
\* One tree grown by addLeaf and thinned by removeLeaf, as the creator's tree
\* is while participants come and go and nobody commits.
\* ==================================================================
\* The participants the relay admits to a room.
ROOM_LIMIT == 16

blankedLeaves(st) ==
  {p \in 0..(st.numLeaves - 1) : nodeAt(st.nodes, 2 * p).publicKey = NoKey}

\* addLeaf for the next participant; its key is the number of its leaf.  The
\* method has no failing path.
AddLeaf ==
  /\ grown.numLeaves < MaxGrown
  /\ grown' = addLeaf(grown, grown.numLeaves + 1)
  /\ lastAdd' = [done |-> TRUE, before |-> grown.numLeaves, thrown |-> FALSE,
                 unchanged |-> grown' = grown]
  /\ UNCHANGED outsideGrow

\* removeLeaf for a participant other than the creator.
RemoveLeaf(p) ==
  /\ p < grown.numLeaves
  /\ p \notin blankedLeaves(grown)
  /\ Cardinality(blankedLeaves(grown)) < MaxBlanked
  /\ grown' = removeLeaf(grown, p)
  /\ UNCHANGED lastAdd
  /\ UNCHANGED outsideGrow

NextGrow ==
  \/ AddLeaf
  \/ \E p \in 1..(MaxGrown - 1) : RemoveLeaf(p)

SpecGrow == Init /\ [][NextGrow]_vars

\* ==================================================================
\* The per-sender chain at a receiver: decryptMessage with its skipped-key
\* cache and the previous-epoch chains of the grace window, under the message
\* handler of ChatConnection.
\* ==================================================================
\* The keys the skipped-key cache of a chain holds at most.
MAX_SKIPPED == 100

\* ratchet: the message key and the next chain key of a chain key.
messageKey(chainKey) == <<"msg", chainKey[1], chainKey[2]>>

nextChainKey(chainKey) == <<chainKey[1], chainKey[2] + 1>>

\* AES-GCM: the payload opens under the key it was sealed with and under no
\* other; NoText stands for the authentication failure.
NoText == 0

seal(key, text) == [key |-> key, text |-> text]

open(key, payload) == IF payload.key = key THEN payload.text ELSE NoText

\* The cache after the keys of counters chain.counter .. n - 1 were added:
\* the oldest entries leave when there are more than MAX_SKIPPED.
unbounded(skipped) == skipped

bounded(skipped) ==
  IF Len(skipped) > MAX_SKIPPED
  THEN SubSeq(skipped, Len(skipped) - MAX_SKIPPED + 1, Len(skipped))
  ELSE skipped

skipTo(chain, n) ==
  bounded(chain.skipped \o
          [i \in 1..(n - chain.counter) |->
             [counter |-> chain.counter + i - 1,
              key |-> messageKey(<<chain.epoch, chain.counter + i - 1>>)]])

cachedAt(chain, n) == {i \in 1..Len(chain.skipped) : chain.skipped[i].counter = n}

withoutNone(skipped, n) == skipped

without(skipped, n) == SelectSeq(skipped, LAMBDA entry : entry.counter # n)

failed(chain, error) == [ok |-> FALSE, error |-> error, text |-> NoText, chain |-> chain]

\* Decryption at or ahead of the chain's counter: ratchet to n, open, and
\* keep the advanced chain only when the payload opened.
decryptAhead(chain, n, payload) ==
  IF open(messageKey(<<chain.epoch, n>>), payload) = NoText
  THEN failed(chain, "AuthFailed")
  ELSE [ok |-> TRUE, error |-> "none",
        text |-> open(messageKey(<<chain.epoch, n>>), payload),
        chain |-> [chain EXCEPT !.chainKey = <<chain.epoch, n + 1>>,
                                !.counter = n + 1,
                                !.skipped = skipTo(chain, n)]]

\* Decryption behind the counter: the cached key, deleted when it opened the
\* payload.
decryptBehind(chain, n, payload, hits) ==
  IF hits = {} THEN failed(chain, "OutOfOrder")
  ELSE IF open(chain.skipped[Least(hits)].key, payload) = NoText
  THEN failed(chain, "AuthFailed")
  ELSE [ok |-> TRUE, error |-> "none",
        text |-> open(chain.skipped[Least(hits)].key, payload),
        chain |-> [chain EXCEPT !.skipped = without(chain.skipped, n)]]

decryptOn(chain, n, payload) ==
  IF n >= chain.counter THEN decryptAhead(chain, n, payload)
  ELSE decryptBehind(chain, n, payload, cachedAt(chain, n))

\* decryptMessage: the chain of the current epoch, that of the previous one
\* while the grace timer runs, or EpochOutOfWindow.
chainForPast(e) == IF e <= rxEpoch THEN "current" ELSE "none"

chainFor(e) ==
  IF e = rxEpoch THEN "current"
  ELSE IF e = rxEpoch - 1 /\ rxGrace /\ rxPrev # NoChain THEN "previous"
  ELSE "none"

decryptMessage(e, n, payload) ==
  IF chainFor(e) = "current" THEN decryptOn(rxChain, n, payload)
  ELSE IF chainFor(e) = "previous" THEN decryptOn(rxPrev, n, payload)
  ELSE failed(NoChain, "EpochOutOfWindow")

\* Whether the message callback is called for what decryptMessage returned.
onMessageAlways(res) == TRUE

onMessage(res) == res.ok

\* The payload of the sender's message n of epoch e, or one nobody sealed.
payloadOf(e, n, text, forged) ==
  IF forged THEN seal(<<"forged">>, text) ELSE seal(messageKey(<<e, n>>), text)

\* What the handler of one message leaves, res being what decryptMessage did.
Decrypted(e, n, text, forged, which, res) ==
  /\ rxChain' = IF which = "current" THEN res.chain ELSE rxChain
  /\ rxPrev' = IF which = "previous" THEN res.chain ELSE rxPrev
  /\ rxGot' = IF res.ok THEN rxGot \cup {<<e, n>>} ELSE rxGot
  /\ lastMessage' =
       [done |-> TRUE, ok |-> res.ok, error |-> res.error,
        allowed |-> e = rxEpoch \/ (e = rxEpoch - 1 /\ rxGrace),
        late |-> e = rxEpoch - 1 /\ ~rxGrace,
        unchanged |-> rxChain' = rxChain /\ rxPrev' = rxPrev,
        delivered |-> onMessage(res),
        correct |-> res.text = text,
        cached |-> which # "none" /\ n < res.chain.counter /\ cachedAt(res.chain, n) # {},
        evicted |-> which # "none" /\ n < res.chain.counter /\ ~res.ok
                      /\ <<e, n>> \notin rxGot /\ ~forged,
        again |-> res.ok /\ <<e, n>> \in rxGot,
        fresh |-> which # "none" /\ ~forged /\ <<e, n>> \notin rxGot,
        short |-> res.chain.counter <= MAX_SKIPPED,
        behind |-> which # "none" /\ res.ok /\ n + 1 < res.chain.counter,
        afterFailure |-> lastMessage.done /\ ~lastMessage.ok]

\* message: decryptMessage, then the callback; a throw is logged.
HandleChatMessage(e, n, text, forged) ==
  /\ Decrypted(e, n, text, forged, chainFor(e),
               decryptMessage(e, n, payloadOf(e, n, text, forged)))
  /\ UNCHANGED <<rxEpoch, rxGrace>>
  /\ UNCHANGED outsideRatchet

\* A rekey: the chains of the epoch that ends are kept for the grace window
\* and the chains of the new epoch are seeded.
RatchetRekey ==
  /\ rxEpoch < MaxEpoch
  /\ rxEpoch' = rxEpoch + 1
  /\ rxPrev' = rxChain
  /\ rxChain' = seedChain(rxEpoch + 1)
  /\ rxGrace' = TRUE
  /\ rxGot' = {g \in rxGot : g[1] = rxEpoch}
  /\ UNCHANGED lastMessage
  /\ UNCHANGED outsideRatchet

\* The grace timer fires: the previous-epoch chains are dropped.
GraceTimerFires ==
  /\ rxGrace
  /\ rxGrace' = FALSE
  /\ rxPrev' = NoChain
  /\ rxGot' = {g \in rxGot : g[1] = rxEpoch}
  /\ UNCHANGED <<rxEpoch, rxChain, lastMessage>>
  /\ UNCHANGED outsideRatchet

MessageCounters == (0..MaxCounter) \cup (MAX_SKIPPED..(MAX_SKIPPED + MaxBeyond))

NextRatchet ==
  \/ \E e \in 0..MaxEpoch : \E n \in MessageCounters : \E forged \in BOOLEAN :
       HandleChatMessage(e, n, n + 1, forged)
  \/ RatchetRekey
  \/ GraceTimerFires

SpecRatchet == Init /\ [][NextRatchet]_vars

\* ------------------------------------------------------------------
\* Properties of the group at the level of the TreeKEM operations.
\* ------------------------------------------------------------------

Processed(m) == outcome[m].cid # 0

\* C1: commit agreement.  Every participant whose tree was consistent with the
\* committer's and that ran processCommit on a commit got a success and the
\* committer's root secret.
C1_CommitAgreement ==
  \A m \in Members :
    (Processed(m) /\ outcome[m].consistent) =>
      /\ outcome[m].ok
      /\ outcome[m].rootSecret = commitLog[outcome[m].cid].rootSecret

\* C3: forward secrecy after removal.  Once a participant has run
\* removeLeaf(P) and then generateCommit, that commit and every later commit
\* has no entry encapsulated to a key whose secret key P holds, and its root
\* secret is none P knew.
C3_ForwardSecrecy ==
  \A k \in 1..Len(commitLog) : \A k2 \in k..Len(commitLog) : \A p \in Members :
    p \in commitLog[k].removed =>
      /\ commitLog[k2].targets \cap held[p] = {}
      /\ commitLog[k2].rootSecret \notin rootsKnown[p]

\* C6: epoch barrier.  A commit whose epoch is not the receiver's epoch + 1 is
\* rejected and leaves the receiver's tree and epoch unchanged; an accepted
\* commit advances the epoch by exactly one.
C6_EpochBarrier ==
  \A m \in Members :
    Processed(m) =>
      IF outcome[m].nextEpoch
      THEN outcome[m].ok => outcome[m].epochAfter = outcome[m].epochBefore + 1
      ELSE ~outcome[m].ok /\ outcome[m].treeUnchanged /\ outcome[m].epochUnchanged

\* C7: a commit is applied atomically.  A processCommit that failed left the
\* receiver's TreeKEM state as it was before the call.
C7_AtomicCommit ==
  \A m \in Members :
    (Processed(m) /\ ~outcome[m].ok) => outcome[m].treeUnchanged

\* C2: welcome round trip.  For every commit and every leaf position other
\* than the committer's, fromWelcome applied to the welcome the committer
\* generates right after generateCommit succeeds and builds a state whose root
\* secret is the committer's; the same holds of the welcome a joiner handled.
C2_WelcomeRoundTrip ==
  /\ \A k \in 1..Len(commitLog) : \A j \in DOMAIN commitLog[k].roundTrips :
       /\ commitLog[k].roundTrips[j].ok
       /\ commitLog[k].roundTrips[j].rootSecret # NoSecret
       /\ commitLog[k].roundTrips[j].rootSecret = commitLog[k].rootSecret
  /\ \A m \in Members :
       welcomeOutcome[m].done =>
         /\ welcomeOutcome[m].ok
         /\ welcomeOutcome[m].rootSecret # NoSecret
         /\ welcomeOutcome[m].rootSecret = welcomeOutcome[m].committerRoot

\* A commit in a tree of MaxLeaves leaves whose welcome round trip was made for
\* every other leaf, and a joiner at the last leaf that built its state from
\* the welcome it received and holds the committer's root secret.
C2_Witness ==
  /\ \E k \in 1..Len(commitLog) :
       /\ commitLog[k].prePub.numLeaves = MaxLeaves
       /\ DOMAIN commitLog[k].roundTrips = Members \ {commitLog[k].committer}
       /\ commitLog[k].committer # 0
  /\ welcomeOutcome[MaxLeaves - 1].done
  /\ welcomeOutcome[MaxLeaves - 1].ok
  /\ tree[MaxLeaves - 1].numLeaves = MaxLeaves
  /\ welcomeOutcome[MaxLeaves - 1].rootSecret = welcomeOutcome[MaxLeaves - 1].committerRoot

\* ------------------------------------------------------------------
\* Properties of the session dispatcher.
\* ------------------------------------------------------------------

NoDeparture == \A p \in Peers : conn[p] # "gone"

\* C4: unique rekey initiator.  While nobody has left, no join has two
\* initiators, and once every participant that was sent the announcement of a
\* joiner has decided, exactly one of them has decided to initiate.
C4_UniqueInitiator ==
  NoDeparture =>
    \A j \in Peers :
      /\ Cardinality(initiators[j]) <= 1
      /\ (audience[j] # {} /\ audience[j] \subseteq decided[j])
           => Cardinality(initiators[j]) = 1

SessionQuiet == \A p \in Peers : queue[p] = <<>> /\ running[p] = {}

\* C5: the joiner gets the key.  With no departure, once every frame has been
\* handled to its end (nothing is left that could still produce a welcome),
\* every participant that joined a room with a member in it has a tree.
C5_JoinerGetsKey ==
  (SessionQuiet /\ NoDeparture) =>
    \A j \in Peers : (conn[j] = "connected" /\ audience[j] # {}) => sessionHasTreeState(j)

\* C8: frames are dispatched one at a time.  No participant has two
\* handleMessage executions in progress.
C8_OneFrameAtATime ==
  \A p \in Peers : Cardinality(running[p]) <= 1

\* The check steps of add_peer on an announcement: key lengths, signature,
\* TOFU.
checksFail(h) ==
  \/ ~isValidPublicKey(h.frame.public_key)
  \/ h.frame.pq_public_key = EmptyString
  \/ ~isValidMlKemPublicKey(h.frame.pq_public_key)
  \/ ~verifyMlKemSignature(h.frame.public_key,
                           base64ToUint8Array(h.frame.pq_public_key), h.frame.sig)
  \/ h.conflict

\* C9: a rejected announcement has no effect, and an announcement is rejected
\* if and only if one of the checks fails: signing-key length, KEM-key length,
\* signature, TOFU conflict.
C9_RejectedAnnouncement ==
  \A p \in Peers : \A h \in handled[p] :
    /\ h.rejected => (~h.admitted /\ ~h.notified /\ ~h.emitted)
    /\ h.rejected <=> checksFail(h)

\* C10: check order.  The TOFU store is neither inserted into nor refreshed
\* while handling an announcement whose key lengths or signature do not pass.
C10_CheckOrder ==
  \A p \in Peers : \A h \in handled[p] \cup running[p] :
    (isAnnouncement(h.frame) /\ h.tofuWritten) =>
      /\ isValidPublicKey(h.frame.public_key)
      /\ h.frame.pq_public_key # EmptyString
      /\ isValidMlKemPublicKey(h.frame.pq_public_key)
      /\ verifyMlKemSignature(h.frame.public_key,
                              base64ToUint8Array(h.frame.pq_public_key), h.frame.sig)

\* C11: TOFU conflict.  An announcement whose signing key has a stored record
\* bound to another peer identity, or marked key_changed, is rejected: the
\* key-change callback is invoked, the peer is not admitted and the stored
\* record is the one that was there before.  (Announcements that fail an
\* earlier check are left to C9 and C10.)
C11_TofuConflict ==
  \A p \in Peers : \A h \in handled[p] :
    (isAnnouncement(h.frame) /\ addPeerAccepts(h.frame) /\ h.conflict) =>
      /\ h.rejected
      /\ h.keyChange
      /\ ~h.admitted
      /\ h.after = h.before

\* C12: verification expiry.  A record whose verification lies more than 30
\* days back is never reported as verified: checkPeerKey and every read of
\* the record report unverified, and after checkPeerKey the store holds it as
\* unverified.
C12_VerificationExpiry ==
  lastRead.expired =>
    /\ lastRead.status = "unverified"
    /\ lastRead.fn = "checkPeerKey" => lastRead.stored = "unverified"

\* C13: commit before welcome on a join.  Every tree_welcome a participant
\* sent for a join came right after the tree_commit it sent for that join: the
\* commit was the last tree frame it had sent.
C13_CommitBeforeWelcome ==
  \A p \in Peers : \A h \in handled[p] : h.emitted => h.afterCommit

\* ------------------------------------------------------------------
\* Properties of addLeaf and removeLeaf on the trees the members hold.
\* ------------------------------------------------------------------
keyMaterial(node) == <<node.publicKey, node.secretKey, node.secret>>

\* post is st with the slots of touched blank and every other slot as it was.
onlyBlanked(st, post, touched) ==
  \A idx \in 0..(Len(post.nodes) - 1) :
    IF idx \in touched
    THEN keyMaterial(nodeAt(post.nodes, idx)) = keyMaterial(BlankTreeNode)
    ELSE keyMaterial(nodeAt(post.nodes, idx)) = keyMaterial(nodeAt(st.nodes, idx))

pathSet(path) == {path[i] : i \in 1..Len(path)}

addLeafEffect(st, pk, post) ==
  /\ post.numLeaves = st.numLeaves + 1
  /\ post.myLeafPos = st.myLeafPos
  /\ nodeAt(post.nodes, 2 * st.numLeaves) = TreeNode(pk, NoKey, NoSecret)
  /\ onlyBlanked(st, [post EXCEPT !.nodes[2 * st.numLeaves + 1] = NullSlot],
                 pathSet(directPath(st.numLeaves, st.numLeaves + 1))
                   \cup {2 * st.numLeaves})

removeLeafEffect(st, p, post) ==
  /\ post.numLeaves = st.numLeaves
  /\ post.myLeafPos = st.myLeafPos
  /\ Len(post.nodes) = Len(st.nodes)
  /\ onlyBlanked(st, post, pathSet(directPath(p, st.numLeaves)) \cup {2 * p})

\* C17: addLeaf(pk) puts the new leaf at position numLeaves (the value it
\* returns), adds one to numLeaves, installs pk at node 2 * leafPos with no
\* secret key and no secret, leaves no key material on the new leaf's direct
\* path, and leaves the key material of every other node as it was; pk is a
\* key no member has announced yet.
C17_AddLeaf ==
  \A m \in Members : hasTreeState(m) =>
    addLeafEffect(tree[m], nextId, addLeaf(tree[m], nextId))

\* A member that ran addLeaf for the fourth leaf while node 3, on that leaf's
\* path, held a key: the leaf is installed, its path is blank, node 1 kept its key.
C17_Witness ==
  \E m \in Members :
    /\ tree[m].numLeaves = 4
    /\ nodeAt(tree[m].nodes, 6).publicKey # NoKey
    /\ nodeAt(tree[m].nodes, 6).secretKey = NoKey
    /\ nodeAt(tree[m].nodes, 5).publicKey = NoKey
    /\ nodeAt(tree[m].nodes, 3).publicKey = NoKey
    /\ nodeAt(tree[m].nodes, 1).publicKey # NoKey

\* C18: removeLeaf(p) blanks node 2 * p and every node on directPath(p,
\* numLeaves) and leaves numLeaves, myLeafPos and every other node as they
\* were; and along every behaviour a member's numLeaves never decreases and its
\* leaf position never changes once it has a tree.
C18_RemoveLeaf ==
  /\ [](\A m \in Members : hasTreeState(m) =>
          \A p \in 0..(tree[m].numLeaves - 1) :
            removeLeafEffect(tree[m], p, removeLeaf(tree[m], p)))
  /\ [][\A m \in Members : hasTreeState(m) =>
          /\ tree'[m].numLeaves >= tree[m].numLeaves
          /\ tree'[m].myLeafPos = tree[m].myLeafPos]_vars

\* A member that ran removeLeaf for a leaf whose path held a key.
C18_Witness ==
  \E m \in Members : \E p \in removedLeaves[m] :
    /\ tree[m].numLeaves >= 2
    /\ p < tree[m].numLeaves
    /\ p # tree[m].myLeafPos
    /\ keyMaterial(nodeAt(tree[m].nodes, 2 * p)) = keyMaterial(BlankTreeNode)
    /\ \A i \in 1..Len(directPath(p, tree[m].numLeaves)) :
         nodeAt(tree[m].nodes, directPath(p, tree[m].numLeaves)[i]).publicKey = NoKey
    /\ \E q \in 0..(tree[m].numLeaves - 1) :
         q # p /\ nodeAt(tree[m].nodes, 2 * q).publicKey # NoKey

\* C19: room size.  numLeaves is between 1 and 16 in every tree, and an
\* addLeaf on a tree of 16 leaves is rejected and leaves the tree as it was.
C19_RoomSizeBound ==
  /\ grown.numLeaves >= 1
  /\ grown.numLeaves <= ROOM_LIMIT
  /\ (lastAdd.done /\ lastAdd.before = ROOM_LIMIT) => (lastAdd.thrown /\ lastAdd.unchanged)

\* The resolution of a node as the rule states it: the node's own key, else
\* the key of the leftmost descendant that has one, NoKey when the subtree has
\* none.  A slot that was never filled has no key of its own.
RECURSIVE leftmostKey(_, _)
leftmostKey(nodes, nodeIdx) ==
  IF nodeAt(nodes, nodeIdx).publicKey # NoKey THEN nodeAt(nodes, nodeIdx).publicKey
  ELSE IF isLeaf(nodeIdx) THEN NoKey
  ELSE IF leftmostKey(nodes, leftChild(nodeIdx)) # NoKey
       THEN leftmostKey(nodes, leftChild(nodeIdx))
       ELSE leftmostKey(nodes, rightChild(nodeIdx))

\* The ciphertext a path entry carries when the secret is encapsulated to pk.
encapsulatedTo(pk) == IF pk = NoKey THEN EmptyString ELSE uint8ArrayToBase64(pk)

\* C20: resolution in generateCommit.  For every copath node of the committer
\* that has no public key of its own, the path entry at that level is
\* encapsulated to the key of the node's leftmost descendant that has one, and
\* carries no ciphertext only when no node of the subtree has a key.
C20_ResolutionRule ==
  \A m \in Members : hasTreeState(m) =>
    \A i \in 1..Len(copath(tree[m].myLeafPos, tree[m].numLeaves)) :
      nodeAt(tree[m].nodes, copath(tree[m].myLeafPos, tree[m].numLeaves)[i]).publicKey = NoKey
        => generateCommit(tree[m], nextId).commit.path[i].mlKemCiphertext
             = encapsulatedTo(leftmostKey(tree[m].nodes,
                                copath(tree[m].myLeafPos, tree[m].numLeaves)[i]))

\* The path of a commit r generated on tree st, entry by entry.
commitShape(st, r) ==
  /\ r.commit.committerLeafPos = st.myLeafPos
  /\ Len(r.commit.path) = Len(directPath(st.myLeafPos, st.numLeaves))
  /\ \A i \in 1..Len(r.commit.path) :
       /\ r.commit.path[i].nodeIndex = directPath(st.myLeafPos, st.numLeaves)[i]
       /\ r.commit.path[i].newPublicKey =
            uint8ArrayToBase64(nodeAt(r.state.nodes, r.commit.path[i].nodeIndex).publicKey)

\* Entry i of the commit is empty exactly when the copath node at that level
\* has no effective key, and otherwise opens, under the effective key's secret
\* key, to the secret of the path node.
commitEncapsulation(st, r, i) ==
  IF leftmostKey(st.nodes, copath(st.myLeafPos, st.numLeaves)[i]) = NoKey
  THEN /\ r.commit.path[i].mlKemCiphertext = EmptyString
       /\ r.commit.path[i].encryptedSecret = EmptyString
  ELSE /\ r.commit.path[i].mlKemCiphertext # EmptyString
       /\ decryptFromNode(r.commit.path[i].mlKemCiphertext,
                          r.commit.path[i].encryptedSecret,
                          leftmostKey(st.nodes, copath(st.myLeafPos, st.numLeaves)[i]))
            = nodeAt(r.state.nodes, r.commit.path[i].nodeIndex).secret

\* C21: generateCommit emits one path entry per node of the committer's direct
\* path, leaf to root, each with the node's index and new public key, and
\* committerLeafPos is the committer's leaf; an entry's encapsulation is empty
\* exactly when the matching copath node has no effective public key and is
\* an encapsulation of the path node's secret otherwise.
C21_CommitPath ==
  \A m \in Members : hasTreeState(m) =>
    /\ commitShape(tree[m], generateCommit(tree[m], nextId))
    /\ \A i \in 1..Len(directPath(tree[m].myLeafPos, tree[m].numLeaves)) :
         commitEncapsulation(tree[m], generateCommit(tree[m], nextId), i)

\* The welcome w generated for the joiner at leaf j with key pk on the tree st
\* the committer has right after its commit.
welcomeShape(st, j, pk, w) ==
  /\ w.numLeaves = st.numLeaves
  /\ w.myLeafPos = j
  /\ Len(w.treePublicKeys) = Len(st.nodes)
  /\ \A i \in 0..(Len(st.nodes) - 1) :
       w.treePublicKeys[i + 1] =
         IF i = 2 * j THEN uint8ArrayToBase64(pk)
         ELSE encapsulatedTo(nodeAt(st.nodes, i).publicKey)

welcomeFirstSecret(st, j, pk, w, known) ==
  /\ known # {}
  /\ Len(w.pathSecrets) >= 1
  /\ w.pathSecrets[1].nodeIndex = directPath(j, st.numLeaves)[Least(known)]
  /\ decryptFromNode(w.pathSecrets[1].mlKemCiphertext, w.pathSecrets[1].encryptedSecret, pk)
       = nodeAt(st.nodes, directPath(j, st.numLeaves)[Least(known)]).secret

\* The positions of path that hold a secret in nodes.
heldOn(nodes, path) == {i \in 1..Len(path) : nodeAt(nodes, path[i]).secret # NoSecret}

welcomeAfterCommit(st, j, pk) ==
  /\ welcomeShape(st, j, pk, generateWelcome(st, j, pk, 1))
  /\ welcomeFirstSecret(st, j, pk, generateWelcome(st, j, pk, 1),
                        heldOn(st.nodes, directPath(j, st.numLeaves)))

\* C22: a welcome generated right after the committer's generateCommit (for
\* the leaf addLeaf has just given the joiner, whose key is one nobody has
\* announced) carries at least one path secret; its first entry is for the
\* lowest node of the joiner's direct path whose secret the committer holds
\* and opens under the joiner's key; treePublicKeys holds the joiner's key at
\* 2 * joinerLeafPos and the committer's public key or null elsewhere;
\* numLeaves and myLeafPos are the committer's numLeaves and the joiner's leaf.
C22_Welcome ==
  \A m \in Members : hasTreeState(m) =>
    welcomeAfterCommit(generateCommit(addLeaf(tree[m], nextId), nextId + 1).state,
                       tree[m].numLeaves, nextId)

\* A welcome is in flight in a tree of three leaves or more, and its path
\* secret is for the parent of the joiner's leaf.
C22_Witness ==
  \E m \in Members : \E k \in 1..Len(inbox[m]) :
    /\ inbox[m][k].type = "tree_welcome"
    /\ Len(inbox[m][k].tree_welcome.pathSecrets) = 1
    /\ inbox[m][k].tree_welcome.numLeaves >= 3
    /\ inbox[m][k].tree_welcome.pathSecrets[1].nodeIndex
         = directPath(inbox[m][k].tree_welcome.myLeafPos,
                      inbox[m][k].tree_welcome.numLeaves)[1]

\* The secrets on path from position from + 1 on are each the derivation of
\* the one a step below, the one at position from being that of below.
derivationChain(nodes, path, from, below) ==
  \A i \in from..Len(path) :
    nodeAt(nodes, path[i]).secret =
      deriveNodeSecret(IF i = from THEN below ELSE nodeAt(nodes, path[i - 1]).secret)

topOf(nodes, leafIdx, path) ==
  IF path = <<>> THEN nodeAt(nodes, leafIdx).secret
  ELSE nodeAt(nodes, path[Len(path)]).secret

\* The tree r.state generateCommit leaves on st, fresh being the first
\* unused random value.
commitChain(st, fresh, r, dp) ==
  /\ nodeAt(r.state.nodes, 2 * st.myLeafPos) = TreeNode(fresh, fresh, <<fresh, 0>>)
  /\ \A i \in 1..Len(dp) :
       /\ nodeAt(r.state.nodes, dp[i]).publicKey >= fresh
       /\ nodeAt(r.state.nodes, dp[i]).secretKey = nodeAt(r.state.nodes, dp[i]).publicKey
       /\ \A k \in 1..Len(dp) :
            k # i => nodeAt(r.state.nodes, dp[k]).publicKey
                       # nodeAt(r.state.nodes, dp[i]).publicKey
       /\ nodeAt(r.state.nodes, dp[i]).publicKey # fresh
  /\ derivationChain(r.state.nodes, dp, 1, <<fresh, 0>>)
  /\ getRootSecret(r.state) = nodeAt(r.state.nodes, root(st.numLeaves)).secret
  /\ getRootSecret(r.state) = topOf(r.state.nodes, 2 * st.myLeafPos, dp)

\* What processCommit leaves (res) when the secret it decrypted is for the
\* node at position startIdx of the receiver's direct path dp.
receiveChain(st, res, dp, startIdx, decryptedSecret) ==
  /\ res.ok
  /\ nodeAt(res.state.nodes, dp[startIdx]).secret = decryptedSecret
  /\ derivationChain(res.state.nodes, dp, startIdx + 1,
                     decryptedSecret)
  /\ res.rootSecret = nodeAt(res.state.nodes, root(st.numLeaves)).secret
  /\ res.rootSecret = topOf(res.state.nodes, 2 * st.myLeafPos, dp)

\* C23: path secrets form a derivation chain.  After generateCommit the
\* committer's leaf holds a fresh secret and key pair, every node of its direct
\* path holds a fresh key pair and the derivation of the secret one step below,
\* and getRootSecret is the secret at root(numLeaves), the top of the chain;
\* and when processCommit has decrypted the secret of an entry node, the
\* secrets it stores above that node obey the same derivation up to the root.
C23_DerivationChain ==
  \A m \in Members : hasTreeState(m) =>
    /\ commitChain(tree[m], nextId, generateCommit(tree[m], nextId),
                   directPath(tree[m].myLeafPos, tree[m].numLeaves))
    /\ \A startIdx \in 1..Len(directPath(tree[m].myLeafPos, tree[m].numLeaves)) :
         receiveChain(tree[m],
                      processCommitDerive(tree[m], tree[m].nodes,
                                          directPath(tree[m].myLeafPos, tree[m].numLeaves),
                                          startIdx, <<nextId, 0>>),
                      directPath(tree[m].myLeafPos, tree[m].numLeaves),
                      startIdx, <<nextId, 0>>)

\* A committer in a tree of three leaves or more holds the chain it generated.
C23_Witness ==
  \E k \in 1..Len(commitLog) :
    /\ tree[commitLog[k].committer].numLeaves >= 3
    /\ Len(directPath(tree[commitLog[k].committer].myLeafPos,
                      tree[commitLog[k].committer].numLeaves)) >= 2
    /\ getRootSecret(tree[commitLog[k].committer]) = commitLog[k].rootSecret
    /\ getRootSecret(tree[commitLog[k].committer])[2]
         = Len(directPath(tree[commitLog[k].committer].myLeafPos,
                          tree[commitLog[k].committer].numLeaves))

\* ------------------------------------------------------------------
\* Properties of the node index math, for the sizes the grown tree takes.
\* ------------------------------------------------------------------
\* The two children of the parent of x are x and its sibling.
childrenOfParent(x, n) ==
  {leftChild(parent(x, n)), rightChild(parent(x, n))} = {x, sibling(x, n)}

parentOnPath(p, n) ==
  \E i \in 1..Len(directPath(p, n)) : directPath(p, n)[i] = parent(2 * p, n)

siblingsOfParent(n) ==
  \A x \in 0..(treeWidth(n) - 1) : x # root(n) => childrenOfParent(x, n)

\* C24 as stated: for every tree size n in [1, 16] and every leaf p < n,
\* parent(2 * p, n) is on directPath(p, n), and for every node x other than the
\* root the children of parent(x, n) are x and sibling(x, n).
C24_NodeMathRoundTrip ==
  grown.numLeaves <= ROOM_LIMIT =>
    /\ \A p \in 0..(grown.numLeaves - 1) : parentOnPath(p, grown.numLeaves)
    /\ siblingsOfParent(grown.numLeaves)

\* C24 amended: the same for every leaf that is not the root, i.e. for every
\* tree size n in [2, 16]; in the tree of one leaf the leaf is the root, parent
\* throws and the direct path is empty.
C24_NodeMathRoundTripAmended ==
  grown.numLeaves <= ROOM_LIMIT =>
    /\ \A p \in 0..(grown.numLeaves - 1) :
         2 * p # root(grown.numLeaves) => parentOnPath(p, grown.numLeaves)
    /\ siblingsOfParent(grown.numLeaves)

C24_Witness ==
  /\ grown.numLeaves = ROOM_LIMIT
  /\ lastAdd.done
  /\ parent(2 * (grown.numLeaves - 1), grown.numLeaves)
       = directPath(grown.numLeaves - 1, grown.numLeaves)[1]

\* The node at step i of the way up from leaf p: the leaf, then the path nodes.
onWayUp(p, n, i) == IF i = 1 THEN 2 * p ELSE directPath(p, n)[i - 1]

pathShape(p, n) ==
  /\ Len(copath(p, n)) = Len(directPath(p, n))
  /\ \A i \in 1..Len(directPath(p, n)) :
       /\ directPath(p, n)[i] = parent(onWayUp(p, n, i), n)
       /\ copath(p, n)[i] # onWayUp(p, n, i)
       /\ copath(p, n)[i] \in {leftChild(directPath(p, n)[i]),
                               rightChild(directPath(p, n)[i])}
  /\ IF n = 1 THEN directPath(p, n) = <<>> /\ copath(p, n) = <<>>
     ELSE /\ directPath(p, n) # <<>>
          /\ directPath(p, n)[Len(directPath(p, n))] = root(n)

\* C25: for every n in [2, 16] and leaf p < n, directPath(p, n) lists the
\* successive parents of node 2 * p and ends with root(n), so root(n) is an
\* ancestor of every leaf; copath(p, n) has the same length and its i-th
\* element is the sibling of the i-th node on the way up; for n = 1 both are
\* empty.
C25_PathShape ==
  grown.numLeaves <= ROOM_LIMIT =>
    \A p \in 0..(grown.numLeaves - 1) : pathShape(p, grown.numLeaves)

C25_Witness ==
  /\ grown.numLeaves = ROOM_LIMIT
  /\ blankedLeaves(grown) # {}
  /\ Len(directPath(grown.numLeaves - 1, grown.numLeaves)) = 4
  /\ Len(copath(0, grown.numLeaves)) = 4

\* C26: for every n in [1, 16] and leaf p < n, every index of directPath(p, n)
\* and copath(p, n) lies in [0, 2 * numLeaves - 1], so the nodes addLeaf and
\* removeLeaf touch are slots of the tree.
C26_IndicesInTree ==
  grown.numLeaves <= ROOM_LIMIT =>
    /\ \A p \in 0..(grown.numLeaves - 1) :
         /\ \A i \in 1..Len(directPath(p, grown.numLeaves)) :
              /\ directPath(p, grown.numLeaves)[i] >= 0
              /\ directPath(p, grown.numLeaves)[i] <= 2 * grown.numLeaves - 1
         /\ \A i \in 1..Len(copath(p, grown.numLeaves)) :
              /\ copath(p, grown.numLeaves)[i] >= 0
              /\ copath(p, grown.numLeaves)[i] <= 2 * grown.numLeaves - 1
    /\ Len(grown.nodes) <= 2 * grown.numLeaves

\* ------------------------------------------------------------------
\* Properties of the per-sender chain at a receiver.
\* ------------------------------------------------------------------
\* The cache of chain is within its bound, in the order the keys were cached,
\* and holds no key older than one it lost: every counter behind the chain's
\* counter that was neither decrypted nor is cached is below all cached ones.
cacheBounded(chain) ==
  /\ Len(chain.skipped) <= MAX_SKIPPED
  /\ \A i \in 1..(Len(chain.skipped) - 1) :
       chain.skipped[i].counter < chain.skipped[i + 1].counter
  /\ \A c \in 0..(chain.counter - 1) :
       (<<chain.epoch, c>> \notin rxGot /\ cachedAt(chain, c) = {})
         => \A i \in 1..Len(chain.skipped) : chain.skipped[i].counter > c

\* C27: the skipped-key cache of a chain never holds more than 100 keys; a
\* forward ratchet that would exceed the bound evicts the oldest keys, and a
\* later message with an evicted counter fails with OutOfOrder.
C27_BoundedCache ==
  /\ cacheBounded(rxChain)
  /\ cacheBounded(rxPrev)
  /\ lastMessage.evicted => lastMessage.error = "OutOfOrder"

\* The message with counter 0 arrived after a jump had filled the cache.
C27_Witness ==
  /\ lastMessage.evicted
  /\ lastMessage.error = "OutOfOrder"
  /\ Len(rxChain.skipped) = MAX_SKIPPED
  /\ rxChain.skipped[1].counter > 0

\* C28: out-of-order delivery within an epoch.  Every message of the sender
\* that arrives for the first time on a chain that never passed counter 100
\* decrypts, to the plaintext that was encrypted; a cached key is deleted when
\* it is used and is never used twice; and once the messages 0..k-1 have all
\* been decrypted and no other, the cache is empty.
C28_OutOfOrder ==
  /\ lastMessage.ok => (lastMessage.correct /\ ~lastMessage.cached /\ ~lastMessage.again)
  /\ (lastMessage.fresh /\ lastMessage.short) => lastMessage.ok
  /\ \A k \in 1..(MaxCounter + 1) :
       {g \in rxGot : g[1] = rxEpoch} = {<<rxEpoch, c>> : c \in 0..(k - 1)}
         => (rxChain.skipped = <<>> /\ rxChain.counter = k)

\* The messages 0..MaxCounter were all decrypted, the last one from the cache.
C28_Witness ==
  /\ {g \in rxGot : g[1] = rxEpoch} = {<<rxEpoch, c>> : c \in 0..MaxCounter}
  /\ lastMessage.ok
  /\ lastMessage.behind
  /\ lastMessage.correct
  /\ rxChain.skipped = <<>>

\* C29: a message of epoch e is decrypted only when e is the current epoch, or
\* the one before while the grace timer runs; any other message is rejected
\* with EpochOutOfWindow and changes no chain; and once the timer has fired no
\* previous-epoch chain is kept.
C29_EpochWindow ==
  /\ lastMessage.ok => lastMessage.allowed
  /\ (lastMessage.done /\ ~lastMessage.allowed) =>
       /\ ~lastMessage.ok
       /\ lastMessage.error = "EpochOutOfWindow"
       /\ lastMessage.unchanged
  /\ ~rxGrace => rxPrev = NoChain

\* A message of the previous epoch arrived after the timer had fired.
C29_Witness ==
  /\ lastMessage.late
  /\ lastMessage.error = "EpochOutOfWindow"
  /\ rxEpoch > 0
  /\ ~rxGrace
  /\ rxPrev = NoChain

\* C30: a message whose decryption fails changes no chain and is not given to
\* the message callback, and a message of the sender that arrives for the
\* first time after a failure still decrypts.
C30_FailureChangesNothing ==
  /\ (lastMessage.done /\ ~lastMessage.ok) =>
       (lastMessage.unchanged /\ ~lastMessage.delivered)
  /\ lastMessage.ok => lastMessage.delivered
  /\ (lastMessage.afterFailure /\ lastMessage.fresh /\ lastMessage.short) => lastMessage.ok

\* A message decrypted right after one that failed.
C30_Witness ==
  /\ lastMessage.afterFailure
  /\ lastMessage.ok
  /\ lastMessage.delivered
  /\ lastMessage.correct
  /\ rxChain.counter > 0

\* ------------------------------------------------------------------
\* Properties of one ChatConnection sending messages.
\* ------------------------------------------------------------------

C15_RekeyEveryInterval ==
  hasPeersIn(chatPeers) => streak <= rekeyInterval

\* C16: a commit from another peer resets the rekey counter.  When receiveCommit
\* returned, messagesSinceRekey is 0 as the handler ends; when it threw, the
\* counter is what it was and no status is reported.
C16_CommitResetsCounter ==
  lastReceive.done =>
    IF lastReceive.ok
    THEN lastReceive.reset /\ lastReceive.status
    ELSE lastReceive.kept /\ ~lastReceive.status

C16_Witness ==
  /\ lastReceive.done
  /\ ~lastReceive.ok
  /\ lastReceive.counted
  /\ lastReceive.kept
  /\ ~lastReceive.reset

\* ==================================================================
\* One participant encrypting its messages: sendMessage suspended at await
\* encryptMessage, the chains seeded at the first key and at every new epoch.
\* ==================================================================
\* The counter of the chain after a message key was taken from it.
ratchetedNone(counter) == counter

ratcheted(counter) == counter + 1

\* What encryptMessage hands back: the ciphertext tagged with the epoch and the
\* counter its key was derived at.
encryptMessage(text) ==
  [type |-> "message", payload |-> seal(messageKey(<<txEpoch, txCounter>>), text),
   epoch |-> txEpoch, counter |-> txCounter]

\* The chains are seeded for the first time: the creator's group key, or the
\* welcome a joiner received.
SeedChains ==
  /\ ~txSeeded
  /\ txSeeded' = TRUE
  /\ txCounter' = 0
  /\ UNCHANGED <<txEpoch, txPending, txLog>>
  /\ UNCHANGED outsideSend

\* sendMessage up to await encryptMessage: without a chain it returns at once;
\* with one the self-chain is ratcheted and the frame waits for the resumption.
SendMessageCall(text) ==
  /\ Len(txPending) < MaxSending
  /\ Len(txLog) < MaxProduced
  /\ IF txSeeded
     THEN /\ txPending' = Append(txPending, encryptMessage(text))
          /\ txLog' = Append(txLog, <<txEpoch, txCounter>>)
          /\ txCounter' = ratcheted(txCounter)
     ELSE UNCHANGED <<txPending, txLog, txCounter>>
  /\ UNCHANGED <<txSeeded, txEpoch>>
  /\ UNCHANGED outsideSend

\* sendMessage from await encryptMessage on, for the i-th suspended call: the
\* frame is handed to send.
SendMessageResume(i) ==
  /\ i \in 1..Len(txPending)
  /\ txPending' = [k \in 1..(Len(txPending) - 1) |->
                     IF k < i THEN txPending[k] ELSE txPending[k + 1]]
  /\ UNCHANGED <<txSeeded, txEpoch, txCounter, txLog>>
  /\ UNCHANGED outsideSend

\* A commit was applied: new epoch, every chain re-seeded at counter 0.
ReseedChains ==
  /\ txSeeded
  /\ txEpoch < MaxEpoch
  /\ txEpoch' = txEpoch + 1
  /\ txCounter' = 0
  /\ UNCHANGED <<txSeeded, txPending, txLog>>
  /\ UNCHANGED outsideSend

NextSend ==
  \/ SeedChains
  \/ \E text \in 1..2 : SendMessageCall(text)
  \/ \E i \in 1..MaxSending : SendMessageResume(i)
  \/ ReseedChains

SpecSend == Init /\ [][NextSend]_vars

\* ------------------------------------------------------------------
\* Properties of one participant encrypting its messages.
\* ------------------------------------------------------------------
\* The counters of the ciphertexts of epoch e, in the order they were produced.
countersOf(e) ==
  LET picked == SelectSeq(txLog, LAMBDA entry : entry[1] = e)
  IN [i \in 1..Len(picked) |-> picked[i][2]]

afterDisconnect(manager) == manager

\* connect: initialize generates the ML-KEM key pair, then the socket is opened.
ConnectSocket ==
  /\ ws = "null"
  /\ ~torn
  /\ ws' = "open"
  /\ km' = [km EXCEPT !.kem = TRUE]
  /\ UNCHANGED <<torn, decrypting, afterClose>>
  /\ UNCHANGED outsideClose

\* The first group key (the creator's own, or a welcome): chains are seeded.
ChainsSeeded ==
  /\ ws = "open"
  /\ ~km.chains
  /\ km' = [km EXCEPT !.chains = TRUE]
  /\ UNCHANGED <<ws, torn, decrypting, afterClose>>
  /\ UNCHANGED outsideClose

\* A tree_commit is applied: the chains are saved as previous, new ones seeded.
CommitApplied ==
  /\ ws = "open"
  /\ km.chains
  /\ ~km.previous
  /\ km' = [km EXCEPT !.previous = TRUE, !.counter = 0, !.skipped = FALSE]
  /\ UNCHANGED <<ws, torn, decrypting, afterClose>>
  /\ UNCHANGED outsideClose

\* A 'message' frame arrives on the open socket: the handler runs up to await
\* decryptMessage.
MessageArrives ==
  /\ ws = "open"
  /\ km.chains
  /\ decrypting < MaxSending
  /\ decrypting' = decrypting + 1
  /\ UNCHANGED <<ws, torn, km, afterClose>>
  /\ UNCHANGED outsideClose

\* The handler resumes: the message was decrypted on the sender's chain, with
\* skipped keys cached when it was ahead.
MessageDecrypted(ahead) ==
  /\ decrypting > 0
  /\ decrypting' = decrypting - 1
  /\ km.chains
  /\ km' = [km EXCEPT !.counter = IF km.counter < MaxCounter THEN km.counter + 1 ELSE km.counter,
                      !.skipped = km.skipped \/ ahead]
  /\ afterClose' = IF torn THEN [decrypted |-> TRUE, changed |-> km' # km \/ afterClose.changed]
                   ELSE afterClose
  /\ UNCHANGED <<ws, torn>>
  /\ UNCHANGED outsideClose

\* disconnect().
CallDisconnect ==
  /\ ws # "null"
  /\ ws' = "null"
  /\ torn' = TRUE
  /\ km' = afterDisconnect(km)
  /\ UNCHANGED <<decrypting, afterClose>>
  /\ UNCHANGED outsideClose

\* The socket closes (the relay went away): onclose reports the status.
SocketCloses ==
  /\ ws = "open"
  /\ ws' = "closed"
  /\ torn' = TRUE
  /\ UNCHANGED <<km, decrypting, afterClose>>
  /\ UNCHANGED outsideClose

NextClose ==
  \/ ConnectSocket
  \/ ChainsSeeded
  \/ CommitApplied
  \/ MessageArrives
  \/ \E ahead \in BOOLEAN : MessageDecrypted(ahead)
  \/ CallDisconnect
  \/ SocketCloses

SpecClose == Init /\ [][NextClose]_vars

\* ------------------------------------------------------------------
\* Properties of disconnect.
\* ------------------------------------------------------------------
\* C32: once disconnect was called or the socket closed, the session holds no
\* KEM secret key, no chains, no skipped keys and no previous-epoch chains, and
\* no frame is decrypted or changes key state afterwards.
C32_Teardown ==
  torn =>
    /\ ~km.kem
    /\ ~km.chains
    /\ ~km.skipped
    /\ ~km.previous
    /\ ~afterClose.decrypted
    /\ ~afterClose.changed

\* ==================================================================
\* connect with a stored signing key pair, plain or wrapped under a password.
\* ==================================================================
\* saveKeyPairWithPassword: the private key wrapped under a key derived from
\* the password; the plain entry is removed.
saveKeyPairWithPassword(store, key, password) ==
  [plain |-> NoKey, wrapped |-> <<key, password>>]

saveKeyPairToStorage(store, key) == [store EXCEPT !.plain = key]

isKeyPasswordProtected(store) == store.wrapped # NoWrapped

\* loadKeyPairWithPassword: null without a wrapped entry and when unwrapKey
\* rejects, which it does under any other password than the one it was wrapped
\* with.
loadKeyPairWithPassword(store, password) ==
  IF store.wrapped = NoWrapped THEN NoKey
  ELSE IF store.wrapped[2] = password THEN store.wrapped[1]
  ELSE NoKey

\* !password
passwordMissingAlways(password) == TRUE

passwordMissing(password) == password = NoPassword

\* getOrCreateKeyPair: the key pair, or the error thrown, and the store it
\* leaves; fresh is the key pair generateKeyPair would return.
getOrCreateKeyPair(store, password, fresh) ==
  IF isKeyPasswordProtected(store)
  THEN IF passwordMissing(password)
       THEN [error |-> "Password required", key |-> NoKey, store |-> store]
       ELSE IF loadKeyPairWithPassword(store, password) = NoKey
       THEN [error |-> "Invalid password", key |-> NoKey, store |-> store]
       ELSE [error |-> "none", key |-> loadKeyPairWithPassword(store, password), store |-> store]
  ELSE IF store.plain # NoKey
  THEN [error |-> "none", key |-> store.plain, store |-> store]
  ELSE IF password # NoPassword
  THEN [error |-> "none", key |-> fresh, store |-> saveKeyPairWithPassword(store, fresh, password)]
  ELSE [error |-> "none", key |-> fresh, store |-> saveKeyPairToStorage(store, fresh)]

\* What the password of a connect call is to the stored key pair.
givenAs(store, password) ==
  IF password = NoPassword THEN "none"
  ELSE IF store.wrapped # NoWrapped /\ store.wrapped[2] # password THEN "wrong"
  ELSE "right"

Connecting(password, got) ==
  /\ keyStore' = got.store
  /\ socket' = IF got.error = "none" THEN "open" ELSE socket
  /\ lastConnect' = [done |-> TRUE, protected |-> isKeyPasswordProtected(keyStore),
                     given |-> givenAs(keyStore, password), error |-> got.error,
                     opened |-> socket' = "open", unchanged |-> keyStore' = keyStore]

\* connect(password): initialize, which starts with getOrCreateKeyPair, then
\* new WebSocket; when initialize throws connect rejects before the socket.
ConnectWith(password, fresh) ==
  /\ socket = "null"
  /\ attempts < MaxAttempts
  /\ attempts' = attempts + 1
  /\ Connecting(password, getOrCreateKeyPair(keyStore, password, fresh))
  /\ UNCHANGED announced
  /\ UNCHANGED outsideLogin

\* The relay's welcome on the open socket: key_announce is sent.
WelcomeAnnounce ==
  /\ socket = "open"
  /\ ~announced
  /\ announced' = TRUE
  /\ UNCHANGED <<keyStore, socket, attempts, lastConnect>>
  /\ UNCHANGED outsideLogin

\* The user leaves the room; the next connect is made by a new ChatConnection.
LeaveRoom ==
  /\ socket = "open"
  /\ socket' = "null"
  /\ announced' = FALSE
  /\ UNCHANGED <<keyStore, attempts, lastConnect>>
  /\ UNCHANGED outsideLogin

NextLogin ==
  \/ \E password \in {NoPassword} \cup Passwords : \E fresh \in 1..MaxKeys :
       ConnectWith(password, fresh)
  \/ WelcomeAnnounce
  \/ LeaveRoom

SpecLogin == Init /\ [][NextLogin]_vars

\* ------------------------------------------------------------------
\* Properties of connect with a wrapped key pair.
\* ------------------------------------------------------------------
\* A connect that failed opened no socket, sent no key_announce and left the
\* stored key pair as it was.
neverStarted ==
  /\ ~lastConnect.opened
  /\ socket = "null"
  /\ ~announced
  /\ lastConnect.unchanged

\* C33: with a password-wrapped key pair stored, connect without a password
\* fails with 'Password required' and connect with a wrong password fails with
\* 'Invalid password'; either way no WebSocket is opened, no key_announce is
\* sent and the stored key pair is unchanged.
C33_PasswordErrors ==
  (lastConnect.done /\ lastConnect.protected) =>
    /\ lastConnect.given = "none" => (lastConnect.error = "Password required" /\ neverStarted)
    /\ lastConnect.given = "wrong" => (lastConnect.error = "Invalid password" /\ neverStarted)

\* A wrapped key pair is stored, and the last connect was made without a
\* password after one with a wrong password.
C33_Witness ==
  /\ keyStore.wrapped # NoWrapped
  /\ lastConnect.done
  /\ lastConnect.protected
  /\ lastConnect.given = "none"
  /\ lastConnect.error = "Password required"
  /\ attempts = MaxAttempts

\* ==================================================================
\* Tab coordination: the tabs of one browser claim, refresh and release rooms
\* in the store they share.  Each function runs to completion in its tab.
\* ==================================================================
HEARTBEAT_INTERVAL == 2000

STALE_THRESHOLD == 5000

\* The age in milliseconds of a timestamp taken at second stamp.
ageOf(stamp) == (tabNow - stamp) * 1000

\* rooms[roomId]?.tabId === tabId
ownedBy(rooms, r, t) == rooms[r] # NoClaim /\ rooms[r][1] = t

\* cleanStaleRooms: every claim older than the threshold is deleted.
cleanStaleRooms(rooms) ==
  [r \in TabRooms |->
     IF rooms[r] # NoClaim /\ ageOf(rooms[r][2]) > STALE_THRESHOLD THEN NoClaim ELSE rooms[r]]

\* isRoomOccupied, on the cleaned store.
isRoomOccupied(rooms, r, t) ==
  IF rooms[r] = NoClaim THEN FALSE
  ELSE IF rooms[r][1] = t THEN FALSE
  ELSE ageOf(rooms[r][2]) < STALE_THRESHOLD

\* The store after releaseRoom(r) by tab t.
releasedAlways(rooms, r, t) == [rooms EXCEPT ![r] = NoClaim]

released(rooms, r, t) == IF ownedBy(rooms, r, t) THEN [rooms EXCEPT ![r] = NoClaim] ELSE rooms

\* The store after a heartbeat of tab t whose active room is r.
beaten(rooms, r, t) ==
  IF r # NoRoom /\ ownedBy(rooms, r, t) THEN [rooms EXCEPT ![r] = <<t, tabNow>>] ELSE rooms

\* isRoomOccupied(r) in tab t.
IsRoomOccupied(t, r) ==
  /\ activeRooms' = cleanStaleRooms(activeRooms)
  /\ foundFree' = [foundFree EXCEPT ![t] =
                     IF isRoomOccupied(activeRooms', r, t) THEN NoRoom ELSE r]
  /\ UNCHANGED <<activeRoom, heartbeat, beatAt, tabNow, lastTab>>
  /\ UNCHANGED outsideTabs

\* onRoomJoined(r) in tab t, after isRoomOccupied(r) returned false there:
\* claimRoom writes the claim and restarts the heartbeat.
RoomJoined(t, r) ==
  /\ foundFree[t] = r
  /\ activeRooms' = [activeRooms EXCEPT ![r] = <<t, tabNow>>]
  /\ activeRoom' = [activeRoom EXCEPT ![t] = r]
  /\ heartbeat' = [heartbeat EXCEPT ![t] = TRUE]
  /\ beatAt' = [beatAt EXCEPT ![t] = tabNow]
  /\ foundFree' = [foundFree EXCEPT ![t] = NoRoom]
  /\ UNCHANGED <<tabNow, lastTab>>
  /\ UNCHANGED outsideTabs

\* onRoomLeft(r) in tab t: releaseRoom.
RoomLeft(t, r) ==
  /\ activeRooms' = released(activeRooms, r, t)
  /\ activeRoom' = [activeRoom EXCEPT ![t] = IF activeRoom[t] = r THEN NoRoom ELSE activeRoom[t]]
  /\ heartbeat' = [heartbeat EXCEPT ![t] = FALSE]
  /\ lastTab' = [op |-> "release", owner |-> ownedBy(activeRooms, r, t),
                 claimed |-> activeRooms[r] # NoClaim,
                 same |-> activeRooms'[r] = activeRooms[r],
                 others |-> \A x \in TabRooms \ {r} : activeRooms'[x] = activeRooms[x],
                 refreshed |-> FALSE]
  /\ beatAt' = [beatAt EXCEPT ![t] = 0]
  /\ UNCHANGED <<foundFree, tabNow>>
  /\ UNCHANGED outsideTabs

\* The interval callback of tab t.
HeartbeatFires(t) ==
  /\ heartbeat[t]
  /\ ageOf(beatAt[t]) >= HEARTBEAT_INTERVAL
  /\ beatAt' = [beatAt EXCEPT ![t] = tabNow]
  /\ activeRooms' = beaten(activeRooms, activeRoom[t], t)
  /\ lastTab' = [op |-> "heartbeat",
                 owner |-> activeRoom[t] # NoRoom /\ ownedBy(activeRooms, activeRoom[t], t),
                 claimed |-> activeRoom[t] # NoRoom /\ activeRooms[activeRoom[t]] # NoClaim,
                 same |-> activeRooms' = activeRooms,
                 others |-> \A x \in TabRooms \ {activeRoom[t]} : activeRooms'[x] = activeRooms[x],
                 refreshed |-> /\ activeRoom[t] # NoRoom
                               /\ activeRooms'[activeRoom[t]] = <<t, tabNow>>]
  /\ UNCHANGED <<activeRoom, heartbeat, foundFree, tabNow>>
  /\ UNCHANGED outsideTabs

\* A second passes; an interval that is due fires first.
TabTick ==
  /\ tabNow < MaxNow
  /\ \A t \in Tabs : heartbeat[t] => ageOf(beatAt[t]) < HEARTBEAT_INTERVAL
  /\ tabNow' = tabNow + 1
  /\ UNCHANGED <<activeRooms, activeRoom, heartbeat, beatAt, foundFree, lastTab>>
  /\ UNCHANGED outsideTabs

NextTabs ==
  \/ \E t \in Tabs : \E r \in TabRooms : IsRoomOccupied(t, r)
  \/ \E t \in Tabs : \E r \in TabRooms : RoomJoined(t, r)
  \/ \E t \in Tabs : \E r \in TabRooms : RoomLeft(t, r)
  \/ \E t \in Tabs : HeartbeatFires(t)
  \/ TabTick

SpecTabs == Init /\ [][NextTabs]_vars

\* ------------------------------------------------------------------
\* Properties of the tab coordination.
\* ------------------------------------------------------------------
\* The claim stored for room r is younger than the threshold.
freshClaim(r) == activeRooms[r] # NoClaim /\ ageOf(activeRooms[r][2]) < STALE_THRESHOLD

\* The tabs that have r as their active room.
tabsIn(r) == {t \in Tabs : activeRoom[t] = r}

\* C34: every tab joining a room only after isRoomOccupied returned false for
\* it, at most one tab at a time has room r as its active room while the claim
\* on r is fresh.
C34_SingleActiveTab ==
  \A r \in TabRooms : freshClaim(r) => Cardinality(tabsIn(r)) <= 1

C39_HeartbeatFollowsActiveRoom ==
  \A t \in Tabs :
    /\ heartbeat[t] <=> activeRoom[t] # NoRoom
    /\ (activeRoom[t] # NoRoom /\ ownedBy(activeRooms, activeRoom[t], t))
         => freshClaim(activeRoom[t])

\* ==================================================================
\* One GroupKeyManager registering and removing peers, and the colors
\* recomputeColors assigns.  The manager is followed up to the first call
\* that throws.
\* ==================================================================
\* The id of the manager's own entry in recomputeColors ('__self__').
SelfEntry == 0

\* The first index of entries whose key no entry is below of.
RECURSIVE firstLeast(_, _)
firstLeast(entries, i) ==
  IF \A k \in 1..Len(entries) : entries[i][2] <= entries[k][2] THEN i
  ELSE firstLeast(entries, i + 1)

dropAt(entries, i) ==
  [k \in 1..(Len(entries) - 1) |-> IF k < i THEN entries[k] ELSE entries[k + 1]]

\* allEntries.sort by public key: a stable sort.
RECURSIVE sortByKey(_)
sortByKey(entries) ==
  IF entries = <<>> THEN <<>>
  ELSE <<entries[firstLeast(entries, 1)]>> \o sortByKey(dropAt(entries, firstLeast(entries, 1)))

\* prefs.find(c => !taken.has(c)) || prefs[0]
RECURSIVE firstFreeFrom(_, _, _)
firstFreeFrom(prefs, taken, i) ==
  IF i > Len(prefs) THEN prefs[1]
  ELSE IF prefs[i] \notin taken THEN prefs[i]
  ELSE firstFreeFrom(prefs, taken, i + 1)

firstAlways(prefs, taken) == prefs[1]

firstFree(prefs, taken) == firstFreeFrom(prefs, taken, 1)

\* The loop of recomputeColors over the sorted entries from the i-th on: an
\* entry whose key has no preferences makes prefs.find throw, and what was
\* assigned before stays.
RECURSIVE assignFrom(_, _, _, _, _, _)
assignFrom(entries, i, prefsOf, taken, mine, colors) ==
  IF i > Len(entries) THEN [thrown |-> FALSE, myColor |-> mine, peerColors |-> colors]
  ELSE IF entries[i][2] \notin prefsOf
  THEN [thrown |-> TRUE, myColor |-> mine, peerColors |-> colors]
  ELSE IF entries[i][1] = SelfEntry
  THEN assignFrom(entries, i + 1, prefsOf,
                  taken \cup {firstFree(preferencesOf[entries[i][2]], taken)},
                  firstFree(preferencesOf[entries[i][2]], taken), colors)
  ELSE assignFrom(entries, i + 1, prefsOf,
                  taken \cup {firstFree(preferencesOf[entries[i][2]], taken)},
                  mine,
                  [colors EXCEPT ![entries[i][1]] =
                     firstFree(preferencesOf[entries[i][2]], taken)])

recomputeColors(mineKey, peers, prefsOf, mine, colors) ==
  assignFrom(sortByKey(<<<<SelfEntry, mineKey>>>> \o peers), 1, prefsOf, {}, mine, colors)

\* Map.set: the entry of a known peer keeps its place.
mapSet(peers, id, key) ==
  IF \E k \in 1..Len(peers) : peers[k][1] = id
  THEN [k \in 1..Len(peers) |-> IF peers[k][1] = id THEN <<id, key>> ELSE peers[k]]
  ELSE Append(peers, <<id, key>>)

mapDelete(peers, id) == SelectSeq(peers, LAMBDA entry : entry[1] # id)

\* this.peerPublicKeys.get(peerId), NoKey without an entry.
mapGet(peers, id) ==
  IF \E k \in 1..Len(peers) : peers[k][1] = id
  THEN peers[CHOOSE k \in 1..Len(peers) : peers[k][1] = id][2]
  ELSE NoKey

\* Two of the entries (the manager's own and its peers') have the same key.
sharedKey(mineKey, peers) ==
  \/ \E k \in 1..Len(peers) : peers[k][2] = mineKey
  \/ \E k, l \in 1..Len(peers) : k # l /\ peers[k][2] = peers[l][2]

Recomputed(op, id, res) ==
  /\ myColor' = res.myColor
  /\ peerColors' = res.peerColors
  /\ lastColors' = [op |-> op, thrown |-> res.thrown,
                    gone |-> mapGet(peerPublicKeys', id) = NoKey,
                    shared |-> lastColors.shared \/ sharedKey(myPublicKey, peerPublicKeys')]

\* initialize: the manager's own key gets its preferences, and their first
\* color.
Initialize(key) ==
  /\ myPublicKey = NoKey
  /\ myPublicKey' = key
  /\ colorPreferences' = colorPreferences \cup {key}
  /\ myColor' = preferencesOf[key][1]
  /\ UNCHANGED <<peerPublicKeys, peerColors, lastColors>>
  /\ UNCHANGED outsideColors

\* addPeer(peerId, publicKey).
AddPeer(id, key) ==
  /\ myPublicKey # NoKey
  /\ ~lastColors.thrown
  /\ peerPublicKeys' = mapSet(peerPublicKeys, id, key)
  /\ colorPreferences' = colorPreferences \cup {key}
  /\ Recomputed("addPeer", id,
                recomputeColors(myPublicKey, peerPublicKeys', colorPreferences', myColor,
                                peerColors))
  /\ UNCHANGED myPublicKey
  /\ UNCHANGED outsideColors

\* removePeer(peerId), for a registered peer.
RemovePeer(id) ==
  /\ myPublicKey # NoKey
  /\ ~lastColors.thrown
  /\ mapGet(peerPublicKeys, id) # NoKey
  /\ peerPublicKeys' = mapDelete(peerPublicKeys, id)
  /\ colorPreferences' = colorPreferences \ {mapGet(peerPublicKeys, id)}
  /\ Recomputed("removePeer", id,
                recomputeColors(myPublicKey, peerPublicKeys', colorPreferences', myColor,
                                [peerColors EXCEPT ![id] = NoColor]))
  /\ UNCHANGED myPublicKey
  /\ UNCHANGED outsideColors

NextColors ==
  \/ \E key \in ColorKeys : Initialize(key)
  \/ \E id \in ColorPeers : \E key \in ColorKeys : AddPeer(id, key)
  \/ \E id \in ColorPeers : RemovePeer(id)

SpecColors == Init /\ [][NextColors]_vars

\* ------------------------------------------------------------------
\* Properties of the colors.
\* ------------------------------------------------------------------
\* The color the key gets among the keys: its first preference that no smaller
\* key of the set got.
RECURSIVE colorAmong(_, _)
colorAmong(key, keys) ==
  firstFreeFrom(preferencesOf[key], {colorAmong(k, keys) : k \in {x \in keys : x < key}}, 1)

keysNow == {myPublicKey} \cup {peerPublicKeys[k][2] : k \in 1..Len(peerPublicKeys)}

colorsOf(seq) == {seq[i] : i \in 1..Len(seq)}

\* C35: as long as the manager and its current peers have had pairwise
\* distinct keys, their colors are pairwise distinct, each is one of its key's
\* preferences, which are a permutation of the 16 colors, and the colors are
\* those the set of keys determines, whatever the order of joins and leaves.
C35_DistinctColors ==
  (myPublicKey # NoKey /\ ~lastColors.shared) =>
    /\ \A k \in 1..Len(peerPublicKeys) :
         /\ peerColors[peerPublicKeys[k][1]] # myColor
         /\ peerColors[peerPublicKeys[k][1]] \in colorsOf(preferencesOf[peerPublicKeys[k][2]])
         /\ peerColors[peerPublicKeys[k][1]] = colorAmong(peerPublicKeys[k][2], keysNow)
         /\ \A l \in 1..Len(peerPublicKeys) :
              k # l => peerColors[peerPublicKeys[k][1]] # peerColors[peerPublicKeys[l][1]]
    /\ myColor \in colorsOf(preferencesOf[myPublicKey])
    /\ myColor = colorAmong(myPublicKey, keysNow)
    /\ \A key \in ColorKeys :
         /\ Len(preferencesOf[key]) = Len(PEER_COLORS)
         /\ colorsOf(preferencesOf[key]) = colorsOf(PEER_COLORS)

\* Three entries with distinct keys, two of which prefer the same color first,
\* after a peer has left.
C35_Witness ==
  /\ ~lastColors.shared
  /\ lastColors.op = "removePeer"
  /\ Len(peerPublicKeys) = 2
  /\ \E k, l \in 1..Len(peerPublicKeys) :
       /\ preferencesOf[peerPublicKeys[k][2]][1] = preferencesOf[peerPublicKeys[l][2]][1]
       /\ peerColors[peerPublicKeys[k][1]] = preferencesOf[peerPublicKeys[k][2]][1]
       /\ peerColors[peerPublicKeys[l][1]] # preferencesOf[peerPublicKeys[l][2]][1]
       /\ peerColors[peerPublicKeys[l][1]] # NoColor

\* C36: removePeer of a registered peer returns normally, the peer is gone,
\* and the manager and every remaining peer have a color of their own
\* preferences, also when keys are shared.
C36_RemovePeerSucceeds ==
  lastColors.op = "removePeer" =>
    /\ ~lastColors.thrown
    /\ lastColors.gone
    /\ myColor \in colorsOf(preferencesOf[myPublicKey])
    /\ \A k \in 1..Len(peerPublicKeys) :
         peerColors[peerPublicKeys[k][1]] \in colorsOf(preferencesOf[peerPublicKeys[k][2]])

\* ------------------------------------------------------------------
\* Properties of the TOFU store.
\* ------------------------------------------------------------------
\* C37: from an empty store, a verified record has verifiedAt set and an
\* unverified one has it cleared; markAsVerified and resetVerification for a
\* key without a record leave the store as it is; and the firstSeen of a
\* record never changes once written.
C37_TofuStore ==
  /\ [](\A k \in StoreKeys :
          /\ tofuStore[k].status = "verified" => tofuStore[k].verifiedAt # NoTime
          /\ tofuStore[k].status = "unverified" => tofuStore[k].verifiedAt = NoTime
          /\ tofuStore[k] # NoRecord <=> firstSeen[k] # NoTime
          /\ tofuStore[k] = NoRecord =>
               /\ resetVerification(tofuStore, k) = tofuStore
               /\ \A p \in StorePeers : markAsVerified(tofuStore, p, k, clock) = tofuStore)
  /\ [][\A k \in StoreKeys : firstSeen[k] # NoTime => firstSeen'[k] = firstSeen[k]]_vars

\* A record demoted after its verification expired and stored again later than
\* it was first seen, next to a key that has no record.
C37_Witness ==
  \E k, other \in StoreKeys :
    /\ tofuStore[k].status = "unverified"
    /\ tofuStore[k].verifiedAt = NoTime
    /\ lastRead.fn = "checkPeerKey"
    /\ lastRead.expired
    /\ firstSeen[k] # NoTime
    /\ firstSeen[k] < clock
    /\ tofuStore[other] = NoRecord

\* ==================================================================
\* Safety numbers: generateSafetyNumber on pairs of public keys, which are
\* strings over a small alphabet.
\* ==================================================================
SafetyKeys == UNION {[1..n -> 1..MaxKeyChars] : n \in 1..MaxKeyLen}

\* a < b as Array.prototype.sort compares strings: by code units, a proper
\* prefix first.
RECURSIVE before(_, _)
before(a, b) ==
  IF b = <<>> THEN FALSE
  ELSE IF a = <<>> THEN TRUE
  ELSE IF Head(a) # Head(b) THEN Head(a) < Head(b)
  ELSE before(Tail(a), Tail(b))

\* [myPublicKey, peerPublicKey].sort()
unsorted(a, b) == <<a, b>>

sorted(a, b) == IF before(b, a) THEN <<b, a>> ELSE <<a, b>>

\* The weighted sum of the bytes of data, from which the digest is made.
RECURSIVE weigh(_, _)
weigh(data, k) ==
  IF k > Len(data) THEN 0 ELSE (data[k] * (k * k + 3) + weigh(data, k + 1)) % 65521

\* crypto.subtle.digest('SHA-256', data): 32 bytes, a fixed function of data.
digest(data) == [i \in 1..32 |-> (weigh(data, 1) * (i + 7) + Len(data) * 29 + i * i * 13) % 256]

\* The unsigned 32-bit value of the four bytes from offset on, as its high and
\* its low 16 bits.
valueAt(bytes, offset) ==
  <<bytes[offset + 1] * 256 + bytes[offset + 2], bytes[offset + 3] * 256 + bytes[offset + 4]>>

\* limit = 4294900000 = 65534 * 65536 + 63776
limit == <<65534, 63776>>

\* value < limit
belowLimit(value) == value[1] < limit[1] \/ (value[1] = limit[1] /\ value[2] < limit[2])

\* value % 100000
groupOf(value) == (((((value[1] * 256) % 100000) * 256) % 100000) + value[2]) % 100000

\* The loop of generateSafetyNumber: values at or above the limit are skipped,
\* the bytes are hashed again when they run out.  A group is the number its
\* five digits write.
RECURSIVE groupsFrom(_, _, _)
groupsFrom(bytes, offset, groups) ==
  IF Len(groups) >= 6 THEN groups
  ELSE IF offset + 4 > Len(bytes) THEN groupsFrom(digest(bytes), 0, groups)
  ELSE IF belowLimit(valueAt(bytes, offset))
  THEN groupsFrom(bytes, offset + 4, Append(groups, groupOf(valueAt(bytes, offset))))
  ELSE groupsFrom(bytes, offset + 4, groups)

generateSafetyNumber(myKey, peerKey) ==
  groupsFrom(digest(sorted(myKey, peerKey)[1] \o sorted(myKey, peerKey)[2]), 0, <<>>)

GenerateSafetyNumber(myKey, peerKey) ==
  /\ lastSafety' = [mine |-> myKey, peer |-> peerKey,
                    number |-> generateSafetyNumber(myKey, peerKey)]
  /\ UNCHANGED outsideSafety

NextSafety == \E myKey \in SafetyKeys : \E peerKey \in SafetyKeys : GenerateSafetyNumber(myKey, peerKey)

SpecSafety == Init /\ [][NextSafety]_vars

\* ------------------------------------------------------------------
\* Properties of the safety number.
\* ------------------------------------------------------------------
\* C40: the safety number of two keys is the same whichever of the two is
\* passed first, and it has six groups of five digits.
C40_SafetyNumberSymmetric ==
  lastSafety # NoSafety =>
    /\ lastSafety.number = generateSafetyNumber(lastSafety.peer, lastSafety.mine)
    /\ Len(lastSafety.number) = 6
    /\ \A i \in 1..Len(lastSafety.number) : lastSafety.number[i] \in 0..99999

\* The number was computed with the later key passed first, for two keys whose
\* concatenations differ.
C40_Witness ==
  /\ lastSafety # NoSafety
  /\ before(lastSafety.peer, lastSafety.mine)
  /\ lastSafety.mine \o lastSafety.peer # lastSafety.peer \o lastSafety.mine
  /\ Len(lastSafety.number) = 6

====
